---- MODULE Spec2Model ----
(***************************************************************************)
(* MCADV, the MeshCore adventure bot.                                      *)
(*                                                                         *)
(* Modelled, each with its own specification:                              *)
(*   - AdventureBot._send_reply, the splitting of a reply into LoRa        *)
(*     frames (SpecSend, SpecSendLong);                                    *)
(*   - handle_message and the session store behind it (Spec, SpecCmd,      *)
(*     SpecStory), the store's methods called directly (SpecStore,         *)
(*     SpecLoad) and on several threads (SpecConc), and the periodic save  *)
(*     of HTTP mode beside a request thread (SpecSaver, SpecSaverLive);    *)
(*   - _get_fallback_story (SpecFallback);                                 *)
(*   - the main loop of direct mode (SpecRun);                             *)
(*   - security.rate_limiter.RateLimiter (SpecLimiter);                    *)
(*   - utils.chunking.chunk_message (SpecChunk);                           *)
(*   - radio_gateway.RadioGateway in front of the bot server               *)
(*     (SpecGateway) and the API helpers of telegram_bot (SpecTelegram);   *)
(*   - utils.retry.retry_with_backoff (SpecRetry);                         *)
(*   - utils.cache.ResponseCache (SpecCache).                              *)
(* Python strings are TLA+ strings; TLC evaluates Len, \o and SubSeq on    *)
(* them.                                                                   *)
(***************************************************************************)
EXTENDS Integers, Sequences, FiniteSets, TLC

VARIABLES
    \* ---- _send_reply ----
    text,           \* the reply handed to _send_reply
    spc,            \* "call" before _send_reply runs, "done" once it has returned
    sent,           \* frames the last call passed to mesh.send_message, in order
    \* ---- session store and handle_message ----
    sessions,       \* self._sessions: session key -> session dict
    sessions_dirty, \* self._sessions_dirty
    last_session_save, \* self._last_session_save
    disk,           \* the content of SESSION_FILE
    now,            \* time.time()
    msg,            \* the message handle_message was last called with
    llm,            \* what the Ollama request of that call came to
    generated,      \* the key's session as _generate_story left it in that call
    response,       \* the response of that call
    raised,         \* whether that call ended in an exception
    handled,        \* number of messages handled
    ticks,          \* number of clock advances
    \* ---- methods called directly, as the unit tests call them ----
    op,             \* the method or function last called: its name, arguments, outcome
    \* ---- the main loop of direct mode ----
    run,            \* self.announce, last_announce and self._running
    \* ---- security.rate_limiter.RateLimiter ----
    limiter,        \* _windows, the clock, the calls under way and the calls made
    \* ---- radio_gateway.RadioGateway ----
    gateway,        \* self.stats, what the radio was given, the last call's outcome
    \* ---- utils.retry.retry_with_backoff ----
    retry,          \* the wrapped function's outcomes, the invocations, the sleeps
    \* ---- utils.cache.ResponseCache ----
    cache,          \* self._cache in its order, the clock, the last call
    \* ---- telegram_bot.MCADVTelegramBot ----
    telegram,       \* self.sessions of the Telegram bot and its last API call
    \* ---- store methods running on several threads ----
    heap,           \* the session dicts: object id -> dict
    refs,           \* self._sessions as references: session key -> object id
    thr,            \* per thread: the method it runs, where it is, its locals
    base            \* self._sessions when the threads start

sendVars == <<text, spc, sent>>

storeVars == <<sessions, sessions_dirty, last_session_save, disk>>

botVars == <<storeVars, now, msg, llm, generated, response, raised, handled, ticks>>

utilVars == <<gateway, retry, cache, telegram>>

apiVars == <<op, run, limiter, utilVars>>

concVars == <<heap, refs, thr, base>>

vars == <<sendVars, botVars, apiVars, concVars>>

-----------------------------------------------------------------------------
(* Constants of adventure_bot.py *)

MAX_MSG_LEN == 200

\* self.mesh.node_id, "MCADV"
node_id == "MCADV"

\* suffix_space = 11, the first-pass (worst-case) suffix width
suffix_space == 11

\* total_parts < 100 is the condition for reclaiming suffix space
ReclaimLimit == 100

\* 2 hours of inactivity
SESSION_EXPIRY_SECONDS == 7200

\* (now - self._last_session_save) < 5: the batching window of _save_sessions
SAVE_INTERVAL == 5

\* new_history[-5:]
HISTORY_KEPT == 5

\* bot_messages.AUTO_RESET_24H: "after 24 hours of runtime"
DAY == 86400

AUTO_RESET_24H ==
    "Resetting all adventures after 24 hours of runtime. A new tale may begin!"

ANNOUNCE_INTERVAL == 10800

\* ANNOUNCE_MESSAGE without its leading book emoji
ANNOUNCE_MESSAGE ==
    "MCADV: AI story bot! !adv to start. Reply 1/2/3 to choose. !help for info."

\* Python's None
None == "<None>"

-----------------------------------------------------------------------------
(* Bounds of the model *)

\* SpecSend splits texts of up to about MaxParts chunks
MaxParts == 10

\* SpecSendLong splits texts of LongStep, 2 * LongStep, ... characters
LongStep == 3000

MaxLongSteps == 61

\* Spec handles at most MaxMsgs messages and advances the clock MaxTicks times
MaxMsgs == 3

MaxTicks == 1

\* direct calls of store methods in a run of SpecStore, and its clock advances
MaxCalls == 3

MaxStoreTicks == 2

\* direct calls of _get_fallback_story in a run of SpecFallback
MaxFallbackCalls == 2

\* messages handled in one behaviour of SpecCmd
MaxCmds == 1

\* messages handled after the startup in one behaviour of SpecLoad
MaxLoadedCmds == 1

\* passes of the main loop in one behaviour of SpecRun
MaxLoopSteps == 3

\* messages handled in one behaviour of SpecRun
MaxRunMsgs == 1

\* messages handled in one behaviour of SpecStory
MaxStoryMsgs == 2

\* calls of the rate limiter in one behaviour of SpecLimiter
MaxLimiterCalls == 4

\* seconds the clock of SpecLimiter runs for
MaxLimiterTime == 3

\* words of a text SpecChunk hands to chunk_message
MaxChunkWords == 4

\* messages the radio hands to the gateway in SpecGateway
MaxGatewayMsgs == 2

\* characters of the long story the backend tells in SpecGateway
LongStoryLen == 250

\* API calls the Telegram bot makes in SpecTelegram
MaxTelegramCalls == 3

\* method calls the threads of SpecSaver complete
MaxSaverCalls == 3

\* the largest max_attempts given to retry_with_backoff in SpecRetry
MaxRetryAttempts == 3

\* calls of ResponseCache methods in SpecCache
MaxCacheCalls == 4

\* the largest max_size of a ResponseCache in SpecCache
MaxCacheSize == 2

\* the last second of SpecCache
MaxCacheTime == 3

-----------------------------------------------------------------------------
(* String helpers *)

Min(a, b) == IF a <= b THEN a ELSE b

Ceil(a, b) == (a + b - 1) \div b

DigitChar(d) == SubSeq("0123456789", d + 1, d + 1)

\* str(k) for k >= 0
RECURSIVE Digits(_)
Digits(k) == IF k < 10 THEN DigitChar(k)
             ELSE Digits(k \div 10) \o DigitChar(k % 10)

\* f" ({i}/{n})"
Suffix(i, n) == " (" \o Digits(i) \o "/" \o Digits(n) \o ")"

-----------------------------------------------------------------------------
(* _send_reply *)

\* node_name_overhead = len(self.mesh.node_id) + 2
node_name_overhead == Len(node_id) + 2

\* effective_max_len = MAX_MSG_LEN - node_name_overhead
effective_max_len == MAX_MSG_LEN - node_name_overhead

\* a strict comparison in place of len(text) <= effective_max_len
FitsStrictly(t) == Len(t) < effective_max_len

\* len(text) <= effective_max_len
FitsSingle(t) == Len(t) <= effective_max_len

\* a loop whose k-th chunk starts one character late
ChunkTextSkipping(t, size) ==
    [k \in 1..Ceil(Len(t), size) |->
        SubSeq(t, (k - 1) * size + Min(k, 2), Min(k * size, Len(t)))]

\* chunks = []; remaining = text
\* while remaining: chunks.append(remaining[:chunk_size])
\*                  remaining = remaining[chunk_size:]
\* Before iteration k, remaining is text[(k-1)*chunk_size:], so the k-th chunk
\* is text[(k-1)*chunk_size : k*chunk_size], and the loop ends when nothing is
\* left, after ceil(len(text) / chunk_size) iterations.
ChunkText(t, size) ==
    [k \in 1..Ceil(Len(t), size) |->
        SubSeq(t, (k - 1) * size + 1, Min(k * size, Len(t)))]

\* the chunks the send loop iterates over: the first pass with the worst-case
\* suffix width, then the second pass if the suffix is narrower
SplitText(t) ==
    LET first == ChunkText(t, effective_max_len - suffix_space)
        actual_suffix_space == Len(Suffix(Len(first), Len(first)))
    IN IF Len(first) < ReclaimLimit /\ actual_suffix_space < suffix_space
       THEN ChunkText(t, effective_max_len - actual_suffix_space)
       ELSE first

\* the messages _send_reply passes to mesh.send_message, in order
Frames(t) ==
    IF FitsSingle(t) THEN <<t>>
    ELSE LET parts == SplitText(t)
             total_parts == Len(parts)
         IN [i \in 1..total_parts |-> parts[i] \o Suffix(i, total_parts)]

SendReply ==
    /\ spc = "call"
    /\ sent' = Frames(text)
    /\ spc' = "done"
    /\ UNCHANGED <<text, botVars, apiVars, concVars>>

SendNext == SendReply

-----------------------------------------------------------------------------
(* Built-in offline story trees *)

FANTASY_STORY ==
    [ start |->
        [text |-> "You wake at a crossroads at dusk. Strange sounds fill the air.",
         choices |-> <<"Take the road", "Enter forest", "Make camp">>,
         next |-> ("1" :> "road") @@ ("2" :> "forest") @@ ("3" :> "camp")],
      road |->
        [text |-> "A bridge ahead. A troll demands: 'Pay or fight!'",
         choices |-> <<"Pay the toll", "Fight him", "Sneak past">>,
         next |-> ("1" :> "road_pay") @@ ("2" :> "road_fight") @@ ("3" :> "road_sneak")],
      road_pay |->
        [text |-> "The troll reveals a shortcut to a hidden city. THE END",
         choices |-> <<>>,
         next |-> <<>>],
      road_fight |->
        [text |-> "You defeat the troll! Under the bridge: a chest of gold. THE END",
         choices |-> <<>>,
         next |-> <<>>],
      road_sneak |->
        [text |-> "You fall into the river and wash up at a distant shore. THE END",
         choices |-> <<>>,
         next |-> <<>>],
      forest |->
        [text |-> "Ancient trees tower above. A faint blue light blinks deeper in.",
         choices |-> <<"Follow the light", "Climb a tree", "Turn back">>,
         next |-> ("1" :> "forest_light") @@ ("2" :> "forest_climb") @@ ("3" :> "start")],
      forest_light |->
        [text |-> "The light leads to a fairy ring. What do you do?",
         choices |-> <<"Step inside", "Watch only", "Destroy it">>,
         next |-> ("1" :> "fairy_in") @@ ("2" :> "fairy_watch") @@ ("3" :> "fairy_destroy")],
      fairy_in |->
        [text |-> "You step in and become champion of a magical realm. THE END",
         choices |-> <<>>,
         next |-> <<>>],
      fairy_watch |->
        [text |-> "Fairies dance till dawn then gift you a wishing stone. THE END",
         choices |-> <<>>,
         next |-> <<>>],
      fairy_destroy |->
        [text |-> "Destroying the ring frees a banshee. You flee and survive. THE END",
         choices |-> <<>>,
         next |-> <<>>],
      forest_climb |->
        [text |-> "From the treetop you spy a dragon's nest with glittering eggs.",
         choices |-> <<"Take an egg", "Note location", "Descend fast">>,
         next |-> ("1" :> "dragon_egg") @@ ("2" :> "dragon_note") @@ ("3" :> "dragon_run")],
      dragon_egg |->
        [text |-> "You grab an egg. The mother dragon returns and adopts you. THE END",
         choices |-> <<>>,
         next |-> <<>>],
      dragon_note |->
        [text |-> "You sell the nest location to a wizard for a fortune. THE END",
         choices |-> <<>>,
         next |-> <<>>],
      dragon_run |->
        [text |-> "The dragon spots you but drops a gift in thanks. THE END",
         choices |-> <<>>,
         next |-> <<>>],
      camp |->
        [text |-> "By the fire you find a map and a torn journal.",
         choices |-> <<"Read the map", "Read journal", "Sleep">>,
         next |-> ("1" :> "camp_map") @@ ("2" :> "camp_journal") @@ ("3" :> "camp_sleep")],
      camp_map |->
        [text |-> "The map marks a dragon lair 2 miles east. You go and claim the hoard. THE END",
         choices |-> <<>>,
         next |-> <<>>],
      camp_journal |->
        [text |-> "The journal reveals you are the chosen one. Your quest begins. THE END",
         choices |-> <<>>,
         next |-> <<>>],
      camp_sleep |->
        [text |-> "A wizard visits your dreams and grants you a magic sword. THE END",
         choices |-> <<>>,
         next |-> <<>>] ]

SCIFI_STORY ==
    [ start |->
        [text |-> "Your colony ship drifts off course. Red alarms flash.",
         choices |-> <<"Go to bridge", "Check engines", "Wake captain">>,
         next |-> ("1" :> "bridge") @@ ("2" :> "engines") @@ ("3" :> "captain")],
      bridge |->
        [text |-> "Stars show you're near an uncharted system. A signal blinks.",
         choices |-> <<"Follow signal", "Plot safe course", "Send SOS">>,
         next |-> ("1" :> "signal") @@ ("2" :> "safe_course") @@ ("3" :> "sos")],
      engines |->
        [text |-> "A coolant leak hisses. The reactor is at 12%. Time is short.",
         choices |-> <<"Fix the leak", "Reroute power", "Evacuate now">>,
         next |-> ("1" :> "fix_leak") @@ ("2" :> "reroute") @@ ("3" :> "evac_pod")],
      captain |->
        [text |-> "The captain's pod is empty. A blood smear leads aft.",
         choices |-> <<"Follow smear", "Lock bulkheads", "Arm yourself">>,
         next |-> ("1" :> "smear") @@ ("2" :> "lockdown") @@ ("3" :> "armed")],
      signal |->
        [text |-> "The signal guides you to a derelict with spare fuel. You survive. THE END",
         choices |-> <<>>,
         next |-> <<>>],
      safe_course |->
        [text |-> "You plot a course home. Fuel runs out but a rescue ship finds you. THE END",
         choices |-> <<>>,
         next |-> <<>>],
      sos |->
        [text |-> "A nearby freighter answers. You're towed to safety. THE END",
         choices |-> <<>>,
         next |-> <<>>],
      fix_leak |->
        [text |-> "You seal the leak. Power restored. The ship limps to a station. THE END",
         choices |-> <<>>,
         next |-> <<>>],
      reroute |->
        [text |-> "Clever rerouting buys 10 hours. You make it to an asteroid base. THE END",
         choices |-> <<>>,
         next |-> <<>>],
      evac_pod |->
        [text |-> "You launch in an escape pod and drift for days before rescue. THE END",
         choices |-> <<>>,
         next |-> <<>>],
      smear |->
        [text |-> "You find the captain held by a rogue AI. You free them. THE END",
         choices |-> <<>>,
         next |-> <<>>],
      lockdown |->
        [text |-> "Lockdown traps you but you crawl through vents to escape. THE END",
         choices |-> <<>>,
         next |-> <<>>],
      armed |->
        [text |-> "Armed, you confront a malfunctioning android and shut it down. THE END",
         choices |-> <<>>,
         next |-> <<>>] ]

HORROR_STORY ==
    [ start |->
        [text |-> "You wake alone in an old manor. The front door is locked.",
         choices |-> <<"Search upstairs", "Find a window", "Check cellar">>,
         next |-> ("1" :> "upstairs") @@ ("2" :> "window") @@ ("3" :> "cellar")],
      upstairs |->
        [text |-> "A corridor stretches ahead. A door at the end creaks open.",
         choices |-> <<"Enter the room", "Call out", "Retreat">>,
         next |-> ("1" :> "enter_room") @@ ("2" :> "call_out") @@ ("3" :> "start")],
      window |->
        [text |-> "Outside: thick fog and silent figures standing still.",
         choices |-> <<"Smash window", "Watch figures", "Find a key">>,
         next |-> ("1" :> "smash") @@ ("2" :> "watch") @@ ("3" :> "find_key")],
      cellar |->
        [text |-> "Damp steps descend into darkness. Something breathes below.",
         choices |-> <<"Descend slowly", "Throw a torch", "Seal the door">>,
         next |-> ("1" :> "descend") @@ ("2" :> "torch") @@ ("3" :> "seal")],
      enter_room |->
        [text |-> "A ghost shows you a hidden exit. You escape unharmed. THE END",
         choices |-> <<>>,
         next |-> <<>>],
      call_out |->
        [text |-> "Your echoed name panics you into finding the exit. THE END",
         choices |-> <<>>,
         next |-> <<>>],
      smash |->
        [text |-> "You smash through and sprint. The figures don't follow. THE END",
         choices |-> <<>>,
         next |-> <<>>],
      watch |->
        [text |-> "The figures vanish at dawn. You find the door unlocked. THE END",
         choices |-> <<>>,
         next |-> <<>>],
      find_key |->
        [text |-> "A brass key unlocks the front door. You escape into morning. THE END",
         choices |-> <<>>,
         next |-> <<>>],
      descend |->
        [text |-> "A smuggler's passage leads under the wall to freedom. THE END",
         choices |-> <<>>,
         next |-> <<>>],
      torch |->
        [text |-> "The torch reveals only a cat. Relieved, you find an exit. THE END",
         choices |-> <<>>,
         next |-> <<>>],
      seal |->
        [text |-> "Sealing the door reveals a hidden panel with the front door key. THE END",
         choices |-> <<>>,
         next |-> <<>>] ]
\* the trees with a next entry of the fantasy tree that names no node
StoriesWithDanglingNext ==
    [fantasy |-> [FANTASY_STORY EXCEPT !["road"].next["1"] = "road_toll"],
     scifi |-> SCIFI_STORY,
     horror |-> HORROR_STORY]

\* the trees with two next entries of the fantasy tree naming the same node,
\* so that nothing leads to 'road_pay'
StoriesWithOrphanNode ==
    [fantasy |-> [FANTASY_STORY EXCEPT !["road"].next["1"] = "road_fight"],
     scifi |-> SCIFI_STORY,
     horror |-> HORROR_STORY]

FALLBACK_STORIES ==
    ("fantasy" :> FANTASY_STORY) @@ ("scifi" :> SCIFI_STORY) @@ ("horror" :> HORROR_STORY)

\* list(FALLBACK_STORIES.keys())
VALID_THEMES == DOMAIN FALLBACK_STORIES

-----------------------------------------------------------------------------
(* str and dict operations handle_message relies on *)

Max(a, b) == IF a >= b THEN a ELSE b

IsSpace(c) == c \in {" ", "\t", "\n", "\r"}

RECURSIVE LStrip(_)
LStrip(s) == IF s # "" /\ IsSpace(Head(s)) THEN LStrip(Tail(s)) ELSE s

RECURSIVE RStrip(_)
RStrip(s) ==
    IF s # "" /\ IsSpace(SubSeq(s, Len(s), Len(s)))
    THEN RStrip(SubSeq(s, 1, Len(s) - 1))
    ELSE s

\* s.strip()
Strip(s) == RStrip(LStrip(s))

UpperLetters == "ABCDEFGHIJKLMNOPQRSTUVWXYZ"

LowerLetters == "abcdefghijklmnopqrstuvwxyz"

\* the table that maps each character of from to the character of to at the
\* same position
CharTable(from, to) ==
    [c \in {SubSeq(from, i, i) : i \in 1..Len(from)} |->
        LET i == CHOOSE j \in 1..Len(from) : SubSeq(from, j, j) = c
        IN SubSeq(to, i, i)]

ToLower == CharTable(UpperLetters, LowerLetters)

ToUpper == CharTable(LowerLetters, UpperLetters)

\* s with every character in the table replaced by its image
RECURSIVE MapChars(_, _)
MapChars(s, table) ==
    IF s = "" THEN ""
    ELSE IF Len(s) = 1 THEN (IF s \in DOMAIN table THEN table[s] ELSE s)
    ELSE MapChars(SubSeq(s, 1, Len(s) \div 2), table)
         \o MapChars(SubSeq(s, Len(s) \div 2 + 1, Len(s)), table)

\* s.lower()
Lower(s) == MapChars(s, ToLower)

\* s.upper()
Upper(s) == MapChars(s, ToUpper)

\* s.startswith(p)
StartsWith(s, p) == Len(s) >= Len(p) /\ SubSeq(s, 1, Len(p)) = p

\* sub in s
Contains(s, sub) ==
    \E i \in 0..(Len(s) - Len(sub)) : SubSeq(s, i + 1, i + Len(sub)) = sub

\* the length of the leading run of non-space characters of s
RECURSIVE WordLen(_)
WordLen(s) == IF s = "" \/ IsSpace(Head(s)) THEN 0 ELSE 1 + WordLen(Tail(s))

\* s.split(maxsplit=1), for s without leading whitespace
SplitOnce(s) ==
    LET n == WordLen(s)
        rest == LStrip(SubSeq(s, n + 1, Len(s)))
    IN IF s = "" THEN <<>>
       ELSE IF rest = "" THEN <<SubSeq(s, 1, n)>>
       ELSE <<SubSeq(s, 1, n), rest>>

\* d.get(k, default)
Get(d, k, default) == IF k \in DOMAIN d THEN d[k] ELSE default

\* d without the keys ks
Without(d, ks) == [k \in DOMAIN d \ ks |-> d[k]]

\* seq[:n], which keeps the oldest entries
FirstN(seq, n) ==
    SubSeq(seq, 1, Min(n, Len(seq)))

\* seq[-n:]
LastN(seq, n) ==
    SubSeq(seq, Max(1, Len(seq) - n + 1), Len(seq))

-----------------------------------------------------------------------------
(* Session management.  The store is passed along as a record                *)
(* [sessions, dirty, last_save, disk] so that one handler's calls compose.   *)

\* what a write of SESSION_FILE can come to: written; OSError before the file
\* is opened; OSError after open(..., "w") has truncated it
WriteOutcomes == {"ok", "oserror", "truncated"}

NoFile == [state |-> "absent", data |-> <<>>]

\* a _save_sessions without the test of the time since the last write
SaveSessionsUnbatched(st, force, t, w) ==
    IF ~force /\ ~st.dirty THEN st
    ELSE IF w = "ok"
         THEN [st EXCEPT !.disk = [state |-> "valid", data |-> st.sessions],
                         !.dirty = FALSE,
                         !.last_save = t]
         ELSE IF w = "truncated"
              THEN [st EXCEPT !.disk = [state |-> "corrupt", data |-> <<>>]]
              ELSE st

\* a _save_sessions that clears the flag and stamps the time before it writes
SaveSessionsStamping(st, force, t, w) ==
    IF ~force /\ ~st.dirty THEN st
    ELSE IF ~force /\ (t - st.last_save) < SAVE_INTERVAL THEN st
    ELSE [st EXCEPT !.disk = IF w = "ok"
                              THEN [state |-> "valid", data |-> st.sessions]
                              ELSE IF w = "truncated"
                                   THEN [state |-> "corrupt", data |-> <<>>]
                                   ELSE @,
                    !.dirty = FALSE,
                    !.last_save = t]

\* _save_sessions(force) at time t, the write coming to w
SaveSessions(st, force, t, w) ==
    IF ~force /\ ~st.dirty THEN st
    ELSE IF ~force /\ (t - st.last_save) < SAVE_INTERVAL THEN st
    ELSE IF w = "ok"
         THEN [st EXCEPT !.disk = [state |-> "valid", data |-> st.sessions],
                         !.dirty = FALSE,
                         !.last_save = t]
         ELSE IF w = "truncated"
              THEN [st EXCEPT !.disk = [state |-> "corrupt", data |-> <<>>]]
              ELSE st

\* an expiry that also removes the records exactly SESSION_EXPIRY_SECONDS old
ExpiredAtLimit(ss, t) ==
    {key \in DOMAIN ss : t - Get(ss[key], "last_active", 0) >= SESSION_EXPIRY_SECONDS}

\* the keys _expire_sessions removes at time t
Expired(ss, t) ==
    {key \in DOMAIN ss : t - Get(ss[key], "last_active", 0) > SESSION_EXPIRY_SECONDS}

\* _expire_sessions() at time t
ExpireSessions(st, t, w) ==
    LET expired == Expired(st.sessions, t)
    IN IF expired # {}
       THEN SaveSessions([st EXCEPT !.sessions = Without(st.sessions, expired),
                                    !.dirty = TRUE],
                         FALSE, t, w)
       ELSE st

\* _get_session(key)
GetSession(st, key) == Get(st.sessions, key, <<>>)

\* an update that writes the fields into every stored session
UpdateEverySession(st, key, data, t) ==
    LET merged(k) == ("last_active" :> t) @@ data @@ Get(st.sessions, k, <<>>)
    IN [st EXCEPT !.sessions = [k \in DOMAIN st.sessions \cup {key} |-> merged(k)],
                  !.dirty = TRUE]

\* _update_session(key, data) at time t
UpdateSession(st, key, data, t) ==
    LET session == ("last_active" :> t) @@ data @@ Get(st.sessions, key, <<>>)
    IN [st EXCEPT !.sessions = (key :> session) @@ st.sessions,
                  !.dirty = TRUE]

\* a _clear_session that leaves the write to the batched save
ClearSessionBatched(st, key, t, w) ==
    IF key \in DOMAIN st.sessions
    THEN SaveSessions([st EXCEPT !.sessions = Without(st.sessions, {key}),
                                 !.dirty = TRUE],
                      FALSE, t, w)
    ELSE st

\* _clear_session(key) at time t
ClearSession(st, key, t, w) ==
    IF key \in DOMAIN st.sessions
    THEN SaveSessions([st EXCEPT !.sessions = Without(st.sessions, {key}),
                                 !.dirty = TRUE],
                      TRUE, t, w)
    ELSE st

-----------------------------------------------------------------------------
(* Story formatting, LLM backend, fallback tree *)

\* " ".join(f"{i + 1}:{c}" for i, c in enumerate(choices)), from the i-th on
RECURSIVE ChoiceLine(_, _)
ChoiceLine(choices, i) ==
    IF i > Len(choices) THEN ""
    ELSE (IF i > 1 THEN " " ELSE "") \o Digits(i) \o ":" \o choices[i]
         \o ChoiceLine(choices, i + 1)

\* a message that never lists the choices
FormatStoryMessagePlain(t, choices) == t

\* _format_story_message(text, choices)
FormatStoryMessage(t, choices) ==
    IF choices = <<>> THEN t
    ELSE t \o "\n" \o ChoiceLine(choices, 1)

\* what the request to Ollama can come to
BackendKinds ==
    {"requests_missing",        \* the requests module cannot be imported
     "request_exception",       \* connection error or timeout raised by post
     "http_error",              \* raise_for_status raises HTTPError
     "invalid_json",            \* resp.json() raises ValueError
     "unexpected_exception",    \* any exception of another type
     "json_without_response",   \* a JSON object with no "response" key
     "json"}                    \* a JSON object with a "response" text

\* texts a backend answers with
RawResponses == {"  ", " A cave.\n1:In 2:Out 3:Wait ", "You won! The End"}

BackendOutcomes ==
    {[kind |-> k, response |-> ""] : k \in BackendKinds \ {"json"}}
    \cup {[kind |-> "json", response |-> r] : r \in RawResponses}

\* x.strip() or None
StripOrNone(x) == IF Strip(x) = "" THEN None ELSE Strip(x)

\* _call_ollama(prompt): the value returned, or raised = TRUE
CallOllama(outcome) ==
    IF outcome.kind \in {"requests_missing", "request_exception", "http_error",
                        "invalid_json"}
    THEN [raised |-> FALSE, value |-> None]
    ELSE IF outcome.kind = "unexpected_exception"
         THEN [raised |-> TRUE, value |-> None]
         ELSE IF outcome.kind = "json_without_response"
              THEN [raised |-> FALSE, value |-> StripOrNone("")]
              ELSE [raised |-> FALSE, value |-> StripOrNone(outcome.response)]

\* tree.get(nid, tree["start"])
NodeOf(tree, nid) == Get(tree, nid, tree["start"])

\* a step that stays at the current node when the choice is not in its next
NextNodeIdStaying(st, key, choice, tree) ==
    IF choice = None THEN "start"
    ELSE Get(Get(NodeOf(tree, Get(GetSession(st, key), "node", "start")),
                 "next", <<>>),
             choice, Get(GetSession(st, key), "node", "start"))

\* the node id _get_fallback_story moves to
NextNodeId(st, key, choice, tree) ==
    IF choice = None THEN "start"
    ELSE Get(Get(NodeOf(tree, Get(GetSession(st, key), "node", "start")),
                 "next", <<>>),
             choice, "start")

\* a fallback step that never marks the session finished
StoreNodeStayingActive(st, key, next_id, node, t) ==
    [st |-> UpdateSession(st, key, [node |-> next_id, status |-> "active"], t),
     text |-> FormatStoryMessage(node.text, node.choices)]

\* _get_fallback_story from node = tree.get(next_id, tree["start"]) on
StoreNode(st, key, next_id, node, t) ==
    [st |-> UpdateSession(st, key,
                [node |-> next_id,
                 status |-> IF node.choices = <<>>
                            THEN "finished" ELSE "active"],
                t),
     text |-> FormatStoryMessage(node.text, node.choices)]

\* _get_fallback_story from next_id on
MoveTo(st, key, next_id, tree, t) ==
    StoreNode(st, key, next_id, NodeOf(tree, next_id), t)

\* _get_fallback_story from tree = FALLBACK_STORIES.get(theme, _FANTASY_STORY) on
StepIn(st, key, choice, tree, t) ==
    MoveTo(st, key, NextNodeId(st, key, choice, tree), tree, t)

\* _get_fallback_story(key, choice, theme) at time t: the store afterwards and
\* the text returned
GetFallbackStory(st, key, choice, theme, t) ==
    StepIn(st, key, choice, Get(FALLBACK_STORIES, theme, FANTASY_STORY), t)

\* what _generate_story comes to when it returns reply: the store afterwards,
\* the text returned, the story _call_ollama returned, whether an exception
\* left, and the key's session at the return
Told(st, key, reply, story) ==
    [st |-> st, text |-> reply, llm |-> story, raised |-> FALSE,
     gen |-> GetSession(st, key)]

\* _generate_story after _get_fallback_story has come to fb
ToldFallback(fb, key) == Told(fb.st, key, fb.text, None)

\* _generate_story after _call_ollama has returned story
StoreStory(st, key, choice, theme, story, t) ==
    Told(UpdateSession(st, key,
                [history |-> LastN(IF choice = None THEN <<>>
                                   ELSE Append(Get(GetSession(st, key), "history", <<>>),
                                               "chose " \o choice),
                                   HISTORY_KEPT),
                 theme |-> theme,
                 status |-> IF Contains(Upper(story), "THE END")
                            THEN "finished" ELSE "active"],
                t),
         key, story, story)

\* _generate_story(key, choice, theme) at time t, its _call_ollama coming to
\* call
GenerateStory(st, key, choice, theme, call, t) ==
    IF call.raised
    THEN [st |-> st, text |-> None, llm |-> "<raised>", raised |-> TRUE,
          gen |-> <<>>]
    ELSE IF call.value # None
         THEN StoreStory(st, key, choice, theme, call.value, t)
         ELSE ToldFallback(GetFallbackStory(st, key, choice, theme, t), key)

-----------------------------------------------------------------------------
(* handle_message *)

\* message.sender values
Senders == {"Alice", "Bob"}

\* message.channel_idx values
Channels == {0}

\* message.content values
Contents == {"!adv", " !ADV SciFi ", "!quit", "!help", "!status", "1", "2", "hello"}

HELP_RESPONSE ==
    "MCADV: !adv[theme] start, 1/2/3 choose, !quit end. Themes: fantasy scifi horror"

QUIT_RESPONSE == "Adventure ended. Type !adv to start a new one."

NO_ADVENTURE_RESPONSE == "No active adventure. Type !adv to start."

\* _session_key(message)
SessionKey(message) == message.sender

\* content_lower.startswith(("!adv", "!start"))
IsStartCommand(content_lower) ==
    StartsWith(content_lower, "!adv") \/ StartsWith(content_lower, "!start")

\* a start command that validates the theme in lower case and keeps it as typed
StartThemeAsTyped(content) ==
    LET parts == SplitOnce(content)
        typed == IF Len(parts) > 1 THEN Strip(parts[2]) ELSE "fantasy"
    IN IF Lower(typed) \in VALID_THEMES THEN typed ELSE "fantasy"

\* the theme a start command selects
StartTheme(content) ==
    LET parts == SplitOnce(content)
        raw_theme == IF Len(parts) > 1 THEN Lower(Strip(parts[2])) ELSE "fantasy"
    IN IF raw_theme \in VALID_THEMES THEN raw_theme ELSE "fantasy"

\* what a branch that does not call _generate_story comes to
Quiet(st, reply) ==
    [st |-> st, text |-> reply, llm |-> "<not called>", raised |-> FALSE,
     gen |-> <<>>]

\* the end of the choice branch: g is what _generate_story came to
ClearIfFinished(g, key, t, w) ==
    IF ~g.raised /\ Get(GetSession(g.st, key), "status", None) = "finished"
    THEN [g EXCEPT !.st = ClearSession(g.st, key, t, w)]
    ELSE g

\* a choice branch that only asks whether a record is stored
ChoiceBranchAnyStatus(st, key, content, call, t, w) ==
    IF GetSession(st, key) = <<>>
    THEN Quiet(st, NO_ADVENTURE_RESPONSE)
    ELSE ClearIfFinished(
             GenerateStory(st, key, content,
                           Get(GetSession(st, key), "theme", "fantasy"), call, t),
             key, t, w)

\* the branch "choice: 1, 2, or 3"
ChoiceBranch(st, key, content, call, t, w) ==
    IF GetSession(st, key) = <<>>
       \/ Get(GetSession(st, key), "status", None) # "active"
    THEN Quiet(st, NO_ADVENTURE_RESPONSE)
    ELSE ClearIfFinished(
             GenerateStory(st, key, content,
                           Get(GetSession(st, key), "theme", "fantasy"), call, t),
             key, t, w)

\* the branch "!adv / !start [theme]" once the theme is known
StartWith(st, key, theme, call, t) ==
    GenerateStory(UpdateSession(st, key,
                      [status |-> "active", node |-> "start",
                       history |-> <<>>, theme |-> theme], t),
                  key, None, theme, call, t)

\* the branch "!adv / !start [theme]"
StartBranch(st, key, content, call, t) ==
    StartWith(st, key, StartTheme(content), call, t)

\* the reply of the branch "!status / !state"
StatusText(st, key) ==
    IF GetSession(st, key) # <<>>
       /\ Get(GetSession(st, key), "status", None) = "active"
    THEN "Adventure active (" \o Get(GetSession(st, key), "theme", "fantasy")
         \o "). Enter 1, 2 or 3."
    ELSE NO_ADVENTURE_RESPONSE

\* a status branch that stores a record for the sender
StatusBranchStoring(st, key) ==
    Quiet([st EXCEPT !.sessions = (key :> [status |-> "active"]) @@ @],
          StatusText(st, key))

\* the branch "!status / !state"
StatusBranch(st, key) ==
    Quiet(st, StatusText(st, key))

\* the command dispatch of handle_message, content_lower being content.lower()
DispatchLower(st, key, content, content_lower, call, t, w) ==
    IF content_lower \in {"!help", "help"} THEN Quiet(st, HELP_RESPONSE)
    ELSE IF IsStartCommand(content_lower)
         THEN StartBranch(st, key, content, call, t)
    ELSE IF content_lower \in {"!quit", "!end", "!stop"}
         THEN Quiet(ClearSession(st, key, t, w), QUIT_RESPONSE)
    ELSE IF content \in {"1", "2", "3"}
         THEN ChoiceBranch(st, key, content, call, t, w)
    ELSE IF content_lower \in {"!status", "!state"}
         THEN StatusBranch(st, key)
    ELSE Quiet(st, None)

\* the command dispatch of handle_message, after _expire_sessions
Dispatch(st, key, content, call, t, w) ==
    DispatchLower(st, key, content, Lower(content), call, t, w)

Store == [sessions |-> sessions, dirty |-> sessions_dirty,
          last_save |-> last_session_save, disk |-> disk]

\* what _call_ollama can come to
BackendResults == {CallOllama(outcome) : outcome \in BackendOutcomes}

\* the messages that arrive
Messages == [sender : Senders, content : Contents, channel_idx : Channels]

\* a handle_message that dispatches without the expiry pass
HandleMessageAtUnexpired(st, message, t, w1, call, w2) ==
    Dispatch(st, SessionKey(message), Strip(message.content), call, t, w2)

\* handle_message(message) at time t: w1 is what the write of
\* _expire_sessions comes to, call what _call_ollama comes to, w2 what the
\* write of _clear_session comes to
HandleMessageAt(st, message, t, w1, call, w2) ==
    Dispatch(ExpireSessions(st, t, w1), SessionKey(message),
             Strip(message.content), call, t, w2)

\* frames sent whether or not there is a response
ReplyFramesAlways(r) ==
    IF r.raised THEN <<>>
    ELSE Frames(IF r.text = None THEN "" ELSE r.text)

\* the frames of "if response: self._send_reply(response, channel_idx)"
ReplyFrames(r) ==
    IF r.raised \/ r.text \in {None, ""} THEN <<>> ELSE Frames(r.text)

\* the bot after handle_message(message) has come to r
Handled(message, r) ==
    /\ sessions' = r.st.sessions
    /\ sessions_dirty' = r.st.dirty
    /\ last_session_save' = r.st.last_save
    /\ disk' = r.st.disk
    /\ msg' = message
    /\ llm' = r.llm
    /\ generated' = r.gen
    /\ response' = r.text
    /\ raised' = r.raised
    /\ sent' = ReplyFrames(r)
    /\ handled' = handled + 1
    /\ UNCHANGED <<text, spc, now, ticks, apiVars, concVars>>

\* the outcomes of a write that only happens when attempted is true
WritesIf(attempted) == IF attempted THEN WriteOutcomes ELSE {"ok"}

\* whether handle_message(message) can reach _call_ollama: only the start and
\* the choice branch call _generate_story
MayCallBackend(content) ==
    IsStartCommand(Lower(content)) \/ content \in {"1", "2", "3"}

\* whether handle_message(message) can reach _clear_session: only the quit
\* and the choice branch call it
MayClear(content) ==
    Lower(content) \in {"!quit", "!end", "!stop"} \/ content \in {"1", "2", "3"}

\* what _call_ollama can come to in a call that may reach it
CallsIf(reached) ==
    IF reached THEN BackendResults ELSE {[raised |-> FALSE, value |-> None]}

\* handle_message runs on one of the given messages
HandleFrom(messages) ==
    \E message \in messages :
       \E call \in CallsIf(MayCallBackend(Strip(message.content))),
          w1 \in WritesIf(Expired(sessions, now) # {}),
          w2 \in WritesIf(MayClear(Strip(message.content))
                          /\ SessionKey(message) \in DOMAIN sessions) :
          Handled(message, HandleMessageAt(Store, message, now, w1, call, w2))

\* a message arrives and handle_message runs
HandleMessage ==
    /\ handled < MaxMsgs
    /\ HandleFrom(Messages)

\* seconds the clock advances by between calls
TickSteps == {SAVE_INTERVAL, SESSION_EXPIRY_SECONDS + 1}

\* time passes
Tick ==
    /\ ticks < MaxTicks
    /\ \E d \in TickSteps : now' = now + d
    /\ ticks' = ticks + 1
    /\ UNCHANGED <<sendVars, storeVars, msg, llm, generated, response, raised, handled,
                   apiVars, concVars>>

NoMessage == [sender |-> None, content |-> "", channel_idx |-> 0]

\* the threads that call store methods
Threads == {1, 2}

\* a thread that has not called a method
IdleThread ==
    [op |-> None, pc |-> "idle", data |-> <<>>, session |-> 0, seen |-> <<>>,
     raised |-> FALSE]

\* no RateLimiter has been constructed
NoLimiter == [windows |-> <<>>, t |-> 0, th |-> <<>>, calls |-> <<>>]

\* no RadioGateway has been constructed
NoGateway == [name |-> None]

\* no wrapped function has been called
NoRetry == [name |-> None]

\* no MCADVTelegramBot has been constructed
NoTelegram == [name |-> None]

\* no ResponseCache has been constructed
NoCache == [name |-> None]

\* _run_direct_mode has not been entered
NoRun == [announce |-> FALSE, last_announce |-> 0, running |-> FALSE]

\* no method has been called directly
NoOp == [name |-> None, key |-> None, force |-> FALSE, w |-> "ok"]

\* the bot after __init__, with no session file to load
BotInit ==
    /\ sessions = <<>>
    /\ sessions_dirty = FALSE
    /\ last_session_save = 0
    /\ disk = NoFile
    /\ now = 0
    /\ msg = NoMessage
    /\ llm = "<not called>"
    /\ generated = <<>>
    /\ response = None
    /\ raised = FALSE
    /\ handled = 0
    /\ ticks = 0
    /\ op = NoOp
    /\ run = NoRun
    /\ limiter = NoLimiter
    /\ gateway = NoGateway
    /\ retry = NoRetry
    /\ cache = NoCache
    /\ telegram = NoTelegram
    /\ heap = <<>>
    /\ refs = <<>>
    /\ thr = [t \in Threads |-> IdleThread]
    /\ base = <<>>

Init ==
    /\ BotInit
    /\ text = ""
    /\ spc = "idle"
    /\ sent = <<>>

Next == HandleMessage \/ Tick

Spec == Init /\ [][Next]_vars

-----------------------------------------------------------------------------
(* Reply texts *)

\* s repeated n times
RECURSIVE Repeat(_, _)
Repeat(s, n) ==
    IF n = 0 THEN ""
    ELSE LET half == Repeat(s, n \div 2)
         IN half \o half \o (IF n % 2 = 1 THEN s ELSE "")

\* the text of length n that repeats pat
MkText(n, pat) == SubSeq(Repeat(pat, Ceil(n, Len(pat))), 1, n)

\* "A" * n as in the tests, and a text that is full of part indicators
Patterns == {"A", "You (1/2) go on. "}

\* the chunk sizes _send_reply can use, and the unsplit size
ChunkSizes == {effective_max_len,
               effective_max_len - suffix_space,
               effective_max_len - Len(Suffix(1, 1)),
               effective_max_len - Len(Suffix(10, 10))}

\* lengths at and next to the multiples of each chunk size
TextLens == {n \in {k * c + d : k \in 0..MaxParts, c \in ChunkSizes, d \in {-1, 0, 1}} : n >= 0}

\* lengths across the part counts of two, three and four digits
LongTextLens == {k * LongStep : k \in 1..MaxLongSteps}
                \cup {n * (effective_max_len - suffix_space) + d :
                        n \in {ReclaimLimit - 1, 999, 1000}, d \in {0, 1}}

SendStart(lens, pats) ==
    /\ text \in {MkText(n, p) : n \in lens, p \in pats}
    /\ spc = "call"
    /\ sent = <<>>
    /\ BotInit

SendInit == SendStart(TextLens, Patterns)

SendLongInit == SendStart(LongTextLens, {"A"})

SpecSend == SendInit /\ [][SendNext]_vars

SpecSendLong == SendLongInit /\ [][SendNext]_vars

-----------------------------------------------------------------------------
(* Properties of _send_reply *)

\* the payload budget as the transport defines it: MAX_MSG_LEN less "node_id: "
PayloadLimit == MAX_MSG_LEN - (Len(node_id) + 2)

EndsWith(s, t) == Len(s) >= Len(t) /\ SubSeq(s, Len(s) - Len(t) + 1, Len(s)) = t

\* the frame without its last n characters
StripLast(s, n) == SubSeq(s, 1, Len(s) - n)

\* the frames of fs with the " (i/n)" suffix stripped, concatenated in order
RECURSIVE JoinStripped(_, _, _)
JoinStripped(fs, i, n) ==
    IF i > Len(fs) THEN ""
    ELSE StripLast(fs[i], Len(Suffix(i, n))) \o JoinStripped(fs, i + 1, n)

\* C1: a text longer than the effective payload length is sent as frames
\* ending " (1/n)", ..., " (n/n)" in that order, n being the number of frames
\* sent, and the frames with their suffix stripped, concatenated in send
\* order, are the text.
C1_RoundTrip ==
    (spc = "done" /\ Len(text) > PayloadLimit) =>
        /\ \A i \in 1..Len(sent) : EndsWith(sent[i], Suffix(i, Len(sent)))
        /\ JoinStripped(sent, 1, Len(sent)) = text

\* a text of mixed characters was sent in ten or more frames
C1_Witness ==
    /\ spc = "done"
    /\ Len(text) > PayloadLimit
    /\ Len(sent) >= 10
    /\ text # MkText(Len(text), "A")

\* C2: every frame passed to mesh.send_message is at most effective_max_len
\* long, suffix included, so "node_id: frame" is at most MAX_MSG_LEN long.
C2_SizeBound ==
    \A i \in 1..Len(sent) :
        /\ Len(sent[i]) <= PayloadLimit
        /\ Len(node_id \o ": " \o sent[i]) <= MAX_MSG_LEN

\* C3: the number of frames sent is at most
\* ceil(len(text) / (effective_max_len - len(" (n/n)"))), n the part count.
C3_Minimal ==
    (spc = "done" /\ Len(text) > PayloadLimit) =>
        Len(sent) <= Ceil(Len(text), PayloadLimit - Len(Suffix(Len(sent), Len(sent))))

\* C4: a text of exactly effective_max_len characters is sent as one frame
\* equal to the text; a text one character longer as two frames with the
\* suffixes " (1/2)" and " (2/2)".
C4_Boundary ==
    spc = "done" =>
        /\ Len(text) = PayloadLimit => sent = <<text>>
        /\ Len(text) = PayloadLimit + 1 =>
              /\ Len(sent) = 2
              /\ \A i \in 1..2 : EndsWith(sent[i], Suffix(i, 2))

\* the text one character over the limit went out in two frames
C4_Witness ==
    /\ spc = "done"
    /\ Len(text) = PayloadLimit + 1
    /\ Len(sent) = 2

-----------------------------------------------------------------------------
(* The session store on its own: its methods called one after the other, *)
(* as TestSessionManagement calls them                                     *)

\* the data of _update_session calls
UpdateData == {[status |-> "active", theme |-> "horror"], [node |-> "road"]}

\* the bot after a direct call that came to the store st
Called(st, name, key, force, w) ==
    /\ sessions' = st.sessions
    /\ sessions_dirty' = st.dirty
    /\ last_session_save' = st.last_save
    /\ disk' = st.disk
    /\ op' = [name |-> name, key |-> key, force |-> force, w |-> w]
    /\ run' = run
    /\ limiter' = limiter
    /\ UNCHANGED utilVars
    /\ handled' = handled + 1
    /\ UNCHANGED <<sendVars, now, msg, llm, generated, response, raised, ticks,
                   concVars>>

\* _update_session(key, data)
UpdateCall ==
    /\ handled < MaxCalls
    /\ \E key \in Senders, data \in UpdateData :
          Called(UpdateSession(Store, key, data, now), "update", key, FALSE, "ok")

\* _clear_session(key); op.w is None when no write is attempted
ClearCall ==
    /\ handled < MaxCalls
    /\ \E key \in Senders :
       \E w \in WritesIf(key \in DOMAIN sessions) :
          Called(ClearSession(Store, key, now, w), "clear", key, TRUE,
                 IF key \in DOMAIN sessions THEN w ELSE None)

\* _expire_sessions()
ExpireCall ==
    /\ handled < MaxCalls
    /\ \E w \in WritesIf(Expired(sessions, now) # {}) :
          Called(ExpireSessions(Store, now, w), "expire", None, FALSE, w)

\* whether _save_sessions(force) at time t gets to its try block
SaveAttempts(st, force, t) ==
    force \/ (st.dirty /\ (t - st.last_save) >= SAVE_INTERVAL)

\* _save_sessions(force); op.w is None when no write is attempted
SaveCall ==
    /\ handled < MaxCalls
    /\ \E force \in BOOLEAN :
       \E w \in WritesIf(SaveAttempts(Store, force, now)) :
          Called(SaveSessions(Store, force, now, w), "save", None, force,
                 IF SaveAttempts(Store, force, now) THEN w ELSE None)

\* seconds the clock advances by between direct calls
StoreTickSteps == {1, SAVE_INTERVAL, SESSION_EXPIRY_SECONDS}

\* time passes between direct calls
StoreTick ==
    /\ ticks < MaxStoreTicks
    /\ \E d \in StoreTickSteps : now' = now + d
    /\ ticks' = ticks + 1
    /\ UNCHANGED <<sendVars, storeVars, msg, llm, generated, response, raised, handled,
                   apiVars, concVars>>

StoreNext == UpdateCall \/ ClearCall \/ ExpireCall \/ SaveCall \/ StoreTick

SpecStore == Init /\ [][StoreNext]_vars

-----------------------------------------------------------------------------
(* Store methods on several threads.  The HTTP server handles requests on  *)
(* threads (app.run(threaded=True)) and the methods take no lock, so their *)
(* statements interleave.  A session is a dict object: _sessions holds     *)
(* references, and a method's local `session` may be the stored object.    *)

\* the key the threads work on
ConcKey == "Alice"

\* the data of the threads' _update_session calls
ConcData == {[theme |-> "scifi"], [node |-> "road"]}

\* what _sessions holds when the threads start
ConcStores ==
    {<<>>,
     ConcKey :> [status |-> "active", theme |-> "horror", last_active |-> 0]}

\* self._sessions with every reference followed
Deref(rs, hp) == [key \in DOMAIN rs |-> hp[rs[key]]]

\* the id of a dict created now
NewId == Cardinality(DOMAIN heap) + 1

\* thread t moves to pc
Goto(t, pc) == thr' = [thr EXCEPT ![t].pc = pc]

\* the variables no thread step changes
ConcFrame ==
    UNCHANGED <<sendVars, now, msg, llm, generated, response, raised, handled, ticks,
                apiVars, base>>

\* a thread calls _update_session(key, data), _clear_session(key) or
\* _get_session(key)
Begin(t) ==
    /\ thr[t].pc = "idle"
    /\ \/ \E data \in ConcData :
             thr' = [thr EXCEPT ![t].op = "update", ![t].data = data, ![t].pc = "u_get"]
       \/ thr' = [thr EXCEPT ![t].op = "clear", ![t].pc = "c_test"]
       \/ thr' = [thr EXCEPT ![t].op = "get", ![t].pc = "g_get"]
    /\ UNCHANGED <<storeVars, heap, refs>>
    /\ ConcFrame

\* self._sessions.get(key, {}) into the local `session` of thread t, then pc
GetRef(t, pc) ==
    /\ IF ConcKey \in DOMAIN refs
       THEN /\ thr' = [thr EXCEPT ![t].session = refs[ConcKey], ![t].pc = pc]
            /\ heap' = heap
       ELSE /\ thr' = [thr EXCEPT ![t].session = NewId, ![t].pc = pc]
            /\ heap' = (NewId :> <<>>) @@ heap
    /\ UNCHANGED <<storeVars, refs>>
    /\ ConcFrame

\* the dict of id o becomes d
Mutate(o, d) ==
    /\ heap' = [heap EXCEPT ![o] = d]
    /\ sessions' = Deref(refs, heap')
    /\ UNCHANGED <<sessions_dirty, last_session_save, disk, refs>>
    /\ ConcFrame

\* _update_session: session = self._sessions.get(key, {})
UpdateGet(t) == thr[t].pc = "u_get" /\ GetRef(t, "u_merge")

\* _update_session: session.update(data)
UpdateMerge(t) ==
    /\ thr[t].pc = "u_merge"
    /\ Mutate(thr[t].session, thr[t].data @@ heap[thr[t].session])
    /\ Goto(t, "u_stamp")

\* _update_session: session["last_active"] = time.time()
UpdateStamp(t) ==
    /\ thr[t].pc = "u_stamp"
    /\ Mutate(thr[t].session, ("last_active" :> now) @@ heap[thr[t].session])
    /\ Goto(t, "u_store")

\* _update_session: self._sessions[key] = session
UpdateStore(t) ==
    /\ thr[t].pc = "u_store"
    /\ refs' = (ConcKey :> thr[t].session) @@ refs
    /\ sessions' = Deref(refs', heap)
    /\ Goto(t, "u_dirty")
    /\ UNCHANGED <<sessions_dirty, last_session_save, disk, heap>>
    /\ ConcFrame

\* self._sessions_dirty = True, then pc
SetDirty(t, pc) ==
    /\ sessions_dirty' = TRUE
    /\ Goto(t, pc)
    /\ UNCHANGED <<sessions, last_session_save, disk, heap, refs>>
    /\ ConcFrame

\* _update_session: self._sessions_dirty = True
UpdateDirty(t) == thr[t].pc = "u_dirty" /\ SetDirty(t, "done")

\* _clear_session: if key in self._sessions
ClearTest(t) ==
    /\ thr[t].pc = "c_test"
    /\ Goto(t, IF ConcKey \in DOMAIN refs THEN "c_del" ELSE "done")
    /\ UNCHANGED <<storeVars, heap, refs>>
    /\ ConcFrame

\* _clear_session: del self._sessions[key], a KeyError when the key has gone
ClearDel(t) ==
    /\ thr[t].pc = "c_del"
    /\ IF ConcKey \in DOMAIN refs
       THEN /\ refs' = Without(refs, {ConcKey})
            /\ Goto(t, "c_dirty")
       ELSE /\ refs' = refs
            /\ thr' = [thr EXCEPT ![t].raised = TRUE, ![t].pc = "done"]
    /\ sessions' = Deref(refs', heap)
    /\ UNCHANGED <<sessions_dirty, last_session_save, disk, heap>>
    /\ ConcFrame

\* _clear_session: self._sessions_dirty = True
ClearDirty(t) == thr[t].pc = "c_dirty" /\ SetDirty(t, "c_write")

\* _clear_session: _save_sessions(force=True) up to json.dump
ClearWrite(t) ==
    /\ thr[t].pc = "c_write"
    /\ \E w \in WriteOutcomes :
          /\ disk' = IF w = "ok" THEN [state |-> "valid", data |-> sessions]
                     ELSE IF w = "truncated" THEN [state |-> "corrupt", data |-> <<>>]
                     ELSE disk
          /\ Goto(t, IF w = "ok" THEN "c_flag" ELSE "done")
    /\ UNCHANGED <<sessions, sessions_dirty, last_session_save, heap, refs>>
    /\ ConcFrame

\* _clear_session: _save_sessions(force=True) after json.dump
ClearFlag(t) ==
    /\ thr[t].pc = "c_flag"
    /\ sessions_dirty' = FALSE
    /\ last_session_save' = now
    /\ Goto(t, "done")
    /\ UNCHANGED <<sessions, disk, heap, refs>>
    /\ ConcFrame

\* _get_session: return self._sessions.get(key, {})
GetGet(t) == thr[t].pc = "g_get" /\ GetRef(t, "g_read")

\* the caller of _get_session reads the record it was given
GetRead(t) ==
    /\ thr[t].pc = "g_read"
    /\ thr' = [thr EXCEPT ![t].seen = heap[thr[t].session], ![t].pc = "done"]
    /\ UNCHANGED <<storeVars, heap, refs>>
    /\ ConcFrame

\* the bot with the sessions ss loaded, at time 1, and idle threads
ConcInit ==
    /\ \E ss \in ConcStores :
          /\ sessions = ss
          /\ base = ss
          /\ disk = IF ss = <<>> THEN NoFile ELSE [state |-> "valid", data |-> ss]
          /\ refs = [key \in DOMAIN ss |-> 1]
          /\ heap = IF ss = <<>> THEN <<>> ELSE 1 :> ss[ConcKey]
    /\ sessions_dirty = FALSE
    /\ last_session_save = 1
    /\ now = 1
    /\ msg = NoMessage
    /\ llm = "<not called>"
    /\ generated = <<>>
    /\ response = None
    /\ raised = FALSE
    /\ handled = 0
    /\ ticks = 0
    /\ op = NoOp
    /\ run = NoRun
    /\ limiter = NoLimiter
    /\ gateway = NoGateway
    /\ retry = NoRetry
    /\ cache = NoCache
    /\ telegram = NoTelegram
    /\ thr = [t \in Threads |-> IdleThread]
    /\ text = ""
    /\ spc = "idle"
    /\ sent = <<>>

ConcNext ==
    \E t \in Threads :
       \/ Begin(t)
       \/ UpdateGet(t) \/ UpdateMerge(t) \/ UpdateStamp(t) \/ UpdateStore(t)
       \/ UpdateDirty(t)
       \/ ClearTest(t) \/ ClearDel(t) \/ ClearDirty(t) \/ ClearWrite(t) \/ ClearFlag(t)
       \/ GetGet(t) \/ GetRead(t)

SpecConc == ConcInit /\ [][ConcNext]_vars

-----------------------------------------------------------------------------
(* The periodic save on its own thread (session_saver of _run_http_server) *)
(* next to a thread that handles commands.  _save_sessions takes no lock.  *)

\* the thread that handles requests, and the session_saver thread
HandlerThread == 1

SaverThread == 2

\* session_saver wakes up and calls self._save_sessions()
SaverBegin(t) ==
    /\ t = SaverThread
    /\ thr[t].pc = "idle"
    /\ thr' = [thr EXCEPT ![t].op = "save", ![t].pc = "s_test"]
    /\ UNCHANGED <<storeVars, heap, refs>>
    /\ ConcFrame

\* a request thread calls a store method
HandlerBegin(t) ==
    t = HandlerThread /\ Begin(t)

\* _save_sessions: the two early returns
SaveTest(t) ==
    /\ thr[t].pc = "s_test"
    /\ Goto(t, IF ~sessions_dirty \/ (now - last_session_save) < SAVE_INTERVAL
               THEN "done" ELSE "s_write")
    /\ UNCHANGED <<storeVars, heap, refs>>
    /\ ConcFrame

\* _save_sessions: json.dump(self._sessions, f), coming to one of outcomes
SaveWriteWith(t, outcomes) ==
    /\ thr[t].pc = "s_write"
    /\ \E w \in outcomes :
          /\ disk' = IF w = "ok" THEN [state |-> "valid", data |-> sessions]
                     ELSE IF w = "truncated" THEN [state |-> "corrupt", data |-> <<>>]
                     ELSE disk
          /\ Goto(t, IF w = "ok" THEN "s_flag" ELSE "done")
    /\ UNCHANGED <<sessions, sessions_dirty, last_session_save, heap, refs>>
    /\ ConcFrame

SaveWrite(t) ==
    SaveWriteWith(t, WriteOutcomes)

\* _save_sessions: self._sessions_dirty = False; self._last_session_save = now
SaveFlag(t) ==
    /\ thr[t].pc = "s_flag"
    /\ sessions_dirty' = FALSE
    /\ last_session_save' = now
    /\ Goto(t, "done")
    /\ UNCHANGED <<sessions, disk, heap, refs>>
    /\ ConcFrame

\* the method returns; the thread is free for the next call
Return(t) ==
    /\ thr[t].pc = "done"
    /\ handled < MaxSaverCalls
    /\ thr' = [thr EXCEPT ![t] = IdleThread]
    /\ handled' = handled + 1
    /\ UNCHANGED <<sendVars, storeVars, now, msg, llm, generated, response, raised,
                   ticks, apiVars, heap, refs, base>>

\* the bot with the sessions ss loaded and written SAVE_INTERVAL seconds ago
SaverInit ==
    /\ \E ss \in ConcStores :
          /\ sessions = ss
          /\ base = ss
          /\ disk = IF ss = <<>> THEN NoFile ELSE [state |-> "valid", data |-> ss]
          /\ refs = [key \in DOMAIN ss |-> 1]
          /\ heap = IF ss = <<>> THEN <<>> ELSE 1 :> ss[ConcKey]
    /\ sessions_dirty = FALSE
    /\ last_session_save = 1
    /\ now = 1 + SAVE_INTERVAL
    /\ msg = NoMessage
    /\ llm = "<not called>"
    /\ generated = <<>>
    /\ response = None
    /\ raised = FALSE
    /\ handled = 0
    /\ ticks = 0
    /\ op = NoOp
    /\ run = NoRun
    /\ limiter = NoLimiter
    /\ gateway = NoGateway
    /\ retry = NoRetry
    /\ cache = NoCache
    /\ telegram = NoTelegram
    /\ thr = [t \in Threads |-> IdleThread]
    /\ text = ""
    /\ spc = "idle"
    /\ sent = <<>>

SaverNext ==
    \E t \in Threads :
       \/ HandlerBegin(t) \/ SaverBegin(t) \/ Return(t)
       \/ UpdateGet(t) \/ UpdateMerge(t) \/ UpdateStamp(t) \/ UpdateStore(t)
       \/ UpdateDirty(t)
       \/ ClearTest(t) \/ ClearDel(t) \/ ClearDirty(t) \/ ClearWrite(t) \/ ClearFlag(t)
       \/ GetGet(t) \/ GetRead(t)
       \/ SaveTest(t) \/ SaveWrite(t) \/ SaveFlag(t)

SpecSaver == SaverInit /\ [][SaverNext]_vars

\* The same two threads while writes succeed and session_saver keeps running:
\* the handler makes MaxSaverCalls calls of _update_session and stops, the
\* saver sleeps and saves for ever.  The clock is kept finite by letting the
\* sleep advance it only until SAVE_INTERVAL seconds have passed since the
\* last write, which is all the test of _save_sessions looks at.

\* a request thread calls _update_session
UpdateBegin(t) ==
    /\ t = HandlerThread
    /\ thr[t].pc = "idle"
    /\ \E data \in ConcData :
          thr' = [thr EXCEPT ![t].op = "update", ![t].data = data, ![t].pc = "u_get"]
    /\ UNCHANGED <<storeVars, heap, refs>>
    /\ ConcFrame

\* _update_session returns
UpdateReturn(t) ==
    t = HandlerThread /\ Return(t)

\* session_saver: time.sleep(5), then self._save_sessions() is entered
SaverWake(t) ==
    /\ t = SaverThread
    /\ thr[t].pc = "idle"
    /\ now' = IF now - last_session_save < SAVE_INTERVAL
              THEN now + SAVE_INTERVAL ELSE now
    /\ thr' = [thr EXCEPT ![t].op = "save", ![t].pc = "s_test"]
    /\ UNCHANGED <<sendVars, storeVars, msg, llm, generated, response, raised,
                   handled, ticks, apiVars, heap, refs, base>>

\* json.dump succeeds
SaveWriteOk(t) ==
    SaveWriteWith(t, {"ok"})

\* _save_sessions returns to the loop of session_saver
SaverAgain(t) ==
    /\ t = SaverThread
    /\ thr[t].pc = "done"
    /\ thr' = [thr EXCEPT ![t] = IdleThread]
    /\ UNCHANGED <<storeVars, heap, refs>>
    /\ ConcFrame

\* the steps of the handler thread
HandlerSteps ==
    \/ UpdateBegin(HandlerThread) \/ UpdateGet(HandlerThread)
    \/ UpdateMerge(HandlerThread) \/ UpdateStamp(HandlerThread)
    \/ UpdateStore(HandlerThread) \/ UpdateDirty(HandlerThread)
    \/ UpdateReturn(HandlerThread)

\* the steps of the saver thread
SaverSteps ==
    \/ SaverWake(SaverThread) \/ SaveTest(SaverThread) \/ SaveWriteOk(SaverThread)
    \/ SaveFlag(SaverThread) \/ SaverAgain(SaverThread)

SaverLiveNext == HandlerSteps \/ SaverSteps

\* both threads keep being scheduled
SpecSaverLive ==
    /\ SaverInit
    /\ [][SaverLiveNext]_vars
    /\ WF_vars(HandlerSteps)
    /\ WF_vars(SaverSteps)

-----------------------------------------------------------------------------
(* The fallback tree on its own: _get_fallback_story called directly, as   *)
(* TestFallbackStory calls it                                              *)

\* the key of the direct calls
FallbackKey == "Alice"

\* the records _update_session has stored before the calls: none, or an
\* active session at any node of any tree
FallbackStores ==
    {<<>>}
    \cup UNION {{FallbackKey :> [status |-> "active", node |-> n, theme |-> th,
                                 last_active |-> 0] :
                    n \in DOMAIN FALLBACK_STORIES[th]} :
                 th \in VALID_THEMES}

\* the choice and theme arguments of the calls
FallbackChoices == {None, "1", "2", "3", "9"}

FallbackThemes == VALID_THEMES \cup {"pirate"}

\* the bot after _get_fallback_story(key, choice, theme) has come to r
FellBack(r, key, choice, theme) ==
    /\ sessions' = r.st.sessions
    /\ sessions_dirty' = r.st.dirty
    /\ last_session_save' = r.st.last_save
    /\ disk' = r.st.disk
    /\ response' = r.text
    /\ op' = [name |-> "fallback", key |-> key, choice |-> choice, theme |-> theme]
    /\ run' = run
    /\ limiter' = limiter
    /\ UNCHANGED utilVars
    /\ handled' = handled + 1
    /\ UNCHANGED <<sendVars, now, msg, llm, generated, raised, ticks, concVars>>

\* _get_fallback_story(key, choice, theme)
FallbackCall ==
    /\ handled < MaxFallbackCalls
    /\ \E choice \in FallbackChoices, theme \in FallbackThemes :
          FellBack(GetFallbackStory(Store, FallbackKey, choice, theme, now),
                   FallbackKey, choice, theme)

\* the bot at time 1 with the sessions of FallbackStores
FallbackInit ==
    /\ sessions \in FallbackStores
    /\ sessions_dirty = (sessions # <<>>)
    /\ last_session_save = 0
    /\ disk = NoFile
    /\ now = 1
    /\ msg = NoMessage
    /\ llm = "<not called>"
    /\ generated = <<>>
    /\ response = None
    /\ raised = FALSE
    /\ handled = 0
    /\ ticks = 0
    /\ op = NoOp
    /\ run = NoRun
    /\ limiter = NoLimiter
    /\ gateway = NoGateway
    /\ retry = NoRetry
    /\ cache = NoCache
    /\ telegram = NoTelegram
    /\ heap = <<>>
    /\ refs = <<>>
    /\ thr = [t \in Threads |-> IdleThread]
    /\ base = <<>>
    /\ text = ""
    /\ spc = "idle"
    /\ sent = <<>>

FallbackNext == FallbackCall

SpecFallback == FallbackInit /\ [][FallbackNext]_vars

\* ---------------------------------------------------------------------
\* handle_message on a bot that loaded a session file
\* ---------------------------------------------------------------------

\* records of the session file, as earlier runs of the bot wrote them
AliceRecords ==
    {[status |-> "active", node |-> "road", history |-> <<"chose 1">>,
      theme |-> "fantasy", last_active |-> 0],
     [status |-> "finished", node |-> "start", history |-> <<>>,
      theme |-> "scifi", last_active |-> 0]}

BobRecords ==
    {[status |-> "active", node |-> "start", history |-> <<>>,
      theme |-> "horror", last_active |-> 1]}

\* the maps json.load(f) can come to
CmdStores ==
    {a @@ b : a \in {<<>>} \cup {"Alice" :> r : r \in AliceRecords},
              b \in {<<>>} \cup {"Bob" :> r : r \in BobRecords}}

\* the times at which the message arrives: at the later one the records
\* last active at 0 have expired and those last active at 1 have not
CmdTimes == {1, SESSION_EXPIRY_SECONDS + 1}

\* message.content values
CmdContents ==
    {"!help", "Help", "!adv", "!START Horror", "!quit", "!End", "!status",
     "!STATE", "1", " 3 ", "4", "hello", "", "!helpme"}

\* the messages that arrive
CmdMessages == [sender : Senders, content : CmdContents, channel_idx : Channels]

\* the bot after __init__ has loaded the session file
CmdInit ==
    /\ sessions \in CmdStores
    /\ sessions_dirty = FALSE
    /\ now \in CmdTimes
    /\ last_session_save = now
    /\ disk = IF sessions = <<>> THEN NoFile
              ELSE [state |-> "valid", data |-> sessions]
    /\ msg = NoMessage
    /\ llm = "<not called>"
    /\ generated = <<>>
    /\ response = None
    /\ raised = FALSE
    /\ handled = 0
    /\ ticks = 0
    /\ op = NoOp
    /\ run = NoRun
    /\ limiter = NoLimiter
    /\ gateway = NoGateway
    /\ retry = NoRetry
    /\ cache = NoCache
    /\ telegram = NoTelegram
    /\ heap = <<>>
    /\ refs = <<>>
    /\ thr = [t \in Threads |-> IdleThread]
    /\ base = <<>>
    /\ text = ""
    /\ spc = "idle"
    /\ sent = <<>>

\* a message arrives and handle_message runs
HandleCmd ==
    /\ handled < MaxCmds
    /\ HandleFrom(CmdMessages)

CmdNext == HandleCmd

SpecCmd == CmdInit /\ [][CmdNext]_vars

\* ---------------------------------------------------------------------
\* _load_sessions at startup, and the first message after it
\* ---------------------------------------------------------------------

\* the session maps an earlier run of the bot can have written
SessionMaps == CmdStores

\* a JSON value that is no object, the number 5, as a tagged value: it has no
\* get method
NotASession == [number |-> 5]

\* what the session file can be when the bot starts: missing, not readable
\* by the process, cut short or otherwise not JSON, holding bytes that are
\* not text in the default encoding, or a JSON document, which is not
\* always a session map
DiskFiles ==
    {NoFile,
     [state |-> "unreadable", data |-> <<>>],
     [state |-> "corrupt", data |-> <<>>],
     [state |-> "undecodable", data |-> <<>>]}
    \cup {[state |-> "valid", data |-> m] : m \in SessionMaps}
    \cup {[state |-> "valid", data |-> ("Alice" :> NotASession)]}

\* _load_sessions() on the file: PermissionError is an OSError and
\* JSONDecodeError is caught with it; UnicodeDecodeError is neither, and
\* json.load returns whatever value the document holds
LoadSessions(st, file) ==
    IF file.state = "absent" THEN [st |-> st, raised |-> FALSE]
    ELSE IF file.state \in {"unreadable", "corrupt"}
         THEN [st |-> [st EXCEPT !.sessions = <<>>], raised |-> FALSE]
    ELSE IF file.state = "undecodable" THEN [st |-> st, raised |-> TRUE]
    ELSE [st |-> [st EXCEPT !.sessions = file.data], raised |-> FALSE]

\* __init__ up to the call of _load_sessions
LoadInit ==
    /\ sessions = <<>>
    /\ sessions_dirty = FALSE
    /\ now \in CmdTimes
    /\ last_session_save = now
    /\ disk \in DiskFiles
    /\ msg = NoMessage
    /\ llm = "<not called>"
    /\ generated = <<>>
    /\ response = None
    /\ raised = FALSE
    /\ handled = 0
    /\ ticks = 0
    /\ op = NoOp
    /\ run = NoRun
    /\ limiter = NoLimiter
    /\ gateway = NoGateway
    /\ retry = NoRetry
    /\ cache = NoCache
    /\ telegram = NoTelegram
    /\ heap = <<>>
    /\ refs = <<>>
    /\ thr = [t \in Threads |-> IdleThread]
    /\ base = <<>>
    /\ text = ""
    /\ spc = "idle"
    /\ sent = <<>>

\* the bot after _load_sessions() has come to r
Loaded(r) ==
    /\ sessions' = r.st.sessions
    /\ raised' = r.raised
    /\ op' = [NoOp EXCEPT !.name = "load"]
    /\ run' = run
    /\ limiter' = limiter
    /\ UNCHANGED utilVars
    /\ handled' = handled + 1
    /\ UNCHANGED <<sendVars, sessions_dirty, last_session_save, disk, now, msg,
                   llm, generated, response, ticks, concVars>>

\* _load_sessions()
LoadCall ==
    /\ op.name = None
    /\ Loaded(LoadSessions(Store, disk))

\* handle_message on a store that is no session map: data.get in
\* _expire_sessions raises AttributeError
HandleUnusable ==
    \E message \in CmdMessages :
        /\ msg' = message
        /\ raised' = TRUE
        /\ handled' = handled + 1
        /\ UNCHANGED <<sendVars, storeVars, now, llm, generated, response, ticks,
                       apiVars, concVars>>

\* the first message after a startup that went through
HandleLoaded ==
    /\ op.name = "load"
    /\ ~raised
    /\ handled <= MaxLoadedCmds
    /\ IF \A key \in DOMAIN sessions : sessions[key] # NotASession
       THEN HandleFrom(CmdMessages)
       ELSE HandleUnusable

LoadNext == LoadCall \/ HandleLoaded

SpecLoad == LoadInit /\ [][LoadNext]_vars

\* ---------------------------------------------------------------------
\* the main loop of direct mode
\* ---------------------------------------------------------------------

\* the time at which the bot was constructed and the loop entered
RunStart == 1

\* the times at which the loop is looked at: just entered, about to reach
\* the save interval, about to reach the announce interval, and a day after
\* the start
RunTimes ==
    {RunStart, RunStart + SAVE_INTERVAL - 2, RunStart + ANNOUNCE_INTERVAL - 1,
     RunStart + DAY - 1}

\* last_announce at time t of a loop entered at RunStart
LastAnnounce(t) ==
    RunStart + ((t - RunStart) \div ANNOUNCE_INTERVAL) * ANNOUNCE_INTERVAL

\* the bot in _run_direct_mode at the top of the while loop, no message
\* having arrived since it loaded the session file
RunInit ==
    /\ sessions \in CmdStores
    /\ sessions_dirty = FALSE
    /\ now \in RunTimes
    /\ last_session_save = RunStart
    /\ disk = IF sessions = <<>> THEN NoFile
              ELSE [state |-> "valid", data |-> sessions]
    /\ msg = NoMessage
    /\ llm = "<not called>"
    /\ generated = <<>>
    /\ response = None
    /\ raised = FALSE
    /\ handled = 0
    /\ ticks = 0
    /\ op = NoOp
    /\ \E announce \in BOOLEAN :
          run = [announce |-> announce,
                 last_announce |-> IF announce THEN LastAnnounce(now) ELSE RunStart,
                 running |-> TRUE]
    /\ limiter = NoLimiter
    /\ gateway = NoGateway
    /\ retry = NoRetry
    /\ cache = NoCache
    /\ telegram = NoTelegram
    /\ heap = <<>>
    /\ refs = <<>>
    /\ thr = [t \in Threads |-> IdleThread]
    /\ base = <<>>
    /\ text = ""
    /\ spc = "idle"
    /\ sent = <<>>

\* whether the loop announces at time t
AnnounceDue(t) ==
    run.announce /\ t - run.last_announce >= ANNOUNCE_INTERVAL

\* the bot after a step of _run_direct_mode at time t that left the store st
Ran(st, name, t, w) ==
    /\ sessions' = st.sessions
    /\ sessions_dirty' = st.dirty
    /\ last_session_save' = st.last_save
    /\ disk' = st.disk
    /\ now' = t
    /\ op' = [NoOp EXCEPT !.name = name, !.w = w]
    /\ UNCHANGED <<text, spc, msg, llm, generated, response, raised, handled,
                   limiter, utilVars, concVars>>

\* one pass of the while loop: sleep a second, save if due, announce if due
LoopStep ==
    /\ run.running
    /\ ticks < MaxLoopSteps
    /\ \E w \in WritesIf(SaveAttempts(Store, FALSE, now + 1)) :
          Ran(SaveSessions(Store, FALSE, now + 1, w), "loop", now + 1, w)
    /\ sent' = IF AnnounceDue(now + 1) THEN <<ANNOUNCE_MESSAGE>> ELSE <<>>
    /\ run' = IF AnnounceDue(now + 1)
              THEN [run EXCEPT !.last_announce = now + 1] ELSE run
    /\ ticks' = ticks + 1

\* a message arrives while the loop sleeps
RunHandle ==
    /\ run.running
    /\ handled < MaxRunMsgs
    /\ HandleFrom(Messages)

\* Ctrl-C: the finally block saves with force and stops the radio
RunStop ==
    /\ run.running
    /\ \E w \in WriteOutcomes :
          Ran(SaveSessions(Store, TRUE, now, w), "stop", now, w)
    /\ sent' = <<>>
    /\ run' = [run EXCEPT !.running = FALSE]
    /\ ticks' = ticks

RunNext == LoopStep \/ RunHandle \/ RunStop

SpecRun == RunInit /\ [][RunNext]_vars

\* ---------------------------------------------------------------------
\* choices in an adventure that has been going on for a while
\* ---------------------------------------------------------------------

\* the histories of the adventure when the behaviour starts: none, one short
\* of the cap, and at the cap
StoryHistories ==
    {<<>>,
     <<"chose 1", "chose 2", "chose 3", "chose 1">>,
     <<"chose 1", "chose 2", "chose 3", "chose 1", "chose 2">>}

\* message.content values
StoryContents == {"1", "3", "!adv"}

\* the messages that arrive
StoryMessages == [sender : {"Alice"}, content : StoryContents, channel_idx : Channels]

\* the bot with Alice's adventure under way; the backend has answered every
\* command so far, so that the node is still the start node
StoryInit ==
    /\ \E h \in StoryHistories :
          sessions = ("Alice" :> [status |-> "active", node |-> "start",
                                  history |-> h, theme |-> "fantasy",
                                  last_active |-> 0])
    /\ sessions_dirty = TRUE
    /\ now \in {0, 1}
    /\ last_session_save = 0
    /\ disk = NoFile
    /\ msg = NoMessage
    /\ llm = "<not called>"
    /\ generated = <<>>
    /\ response = None
    /\ raised = FALSE
    /\ handled = 0
    /\ ticks = 0
    /\ op = NoOp
    /\ run = NoRun
    /\ limiter = NoLimiter
    /\ gateway = NoGateway
    /\ retry = NoRetry
    /\ cache = NoCache
    /\ telegram = NoTelegram
    /\ heap = <<>>
    /\ refs = <<>>
    /\ thr = [t \in Threads |-> IdleThread]
    /\ base = <<>>
    /\ text = ""
    /\ spc = "idle"
    /\ sent = <<>>

\* a message arrives and handle_message runs
HandleStory ==
    /\ handled < MaxStoryMsgs
    /\ HandleFrom(StoryMessages)

StoryNext == HandleStory

SpecStory == StoryInit /\ [][StoryNext]_vars

-----------------------------------------------------------------------------
(* security.rate_limiter.RateLimiter, its methods called from several
   threads.  The body under "with self._lock" is one step, since the lock
   lets no other body run in between; the reading of the clock before it is
   a step of its own. *)

\* RateLimiter(max_messages=2, window_seconds=1)
max_messages == 2

window_seconds == 1

\* user_id values
LimiterUsers == {"user1", "user2"}

\* the threads that call the limiter
LimiterThreads == {1, 2}

\* a thread that is in no call
LimiterIdle == [pc |-> "idle", op |-> None, user |-> None, now |-> 0]

\* "while window and window[0] < cutoff: window.popleft()"
RECURSIVE Evict(_, _)
Evict(window, cutoff) ==
    IF window # <<>> /\ Head(window) < cutoff
    THEN Evict(Tail(window), cutoff)
    ELSE window

\* the body of is_allowed under the lock, t being the time read before it
IsAllowed(windows, user_id, t) ==
    LET window == Evict(Get(windows, user_id, <<>>), t - window_seconds)
    IN IF Len(window) < max_messages
       THEN [windows |-> (user_id :> Append(window, t)) @@ windows, ok |-> TRUE]
       ELSE [windows |-> (user_id :> window) @@ windows, ok |-> FALSE]

\* the body of get_remaining under the lock, t being the time read before it
GetRemaining(windows, user_id, t) ==
    IF user_id \notin DOMAIN windows THEN max_messages
    ELSE Max(0, max_messages
                - Cardinality({i \in DOMAIN windows[user_id] :
                                 windows[user_id][i] >= t - window_seconds}))

\* the limiter after __init__, no thread in a call
LimiterInit ==
    /\ limiter = [windows |-> <<>>, t |-> 0,
                  th |-> [i \in LimiterThreads |-> LimiterIdle],
                  calls |-> <<>>]
    /\ gateway = NoGateway
    /\ retry = NoRetry
    /\ cache = NoCache
    /\ telegram = NoTelegram
    /\ sessions = <<>>
    /\ sessions_dirty = FALSE
    /\ last_session_save = 0
    /\ disk = NoFile
    /\ now = 0
    /\ msg = NoMessage
    /\ llm = "<not called>"
    /\ generated = <<>>
    /\ response = None
    /\ raised = FALSE
    /\ handled = 0
    /\ ticks = 0
    /\ op = NoOp
    /\ run = NoRun
    /\ heap = <<>>
    /\ refs = <<>>
    /\ thr = [t \in Threads |-> IdleThread]
    /\ base = <<>>
    /\ text = ""
    /\ spc = "idle"
    /\ sent = <<>>

\* everything but the limiter stays as it is
LimiterFrame == UNCHANGED <<sendVars, botVars, op, run, utilVars, concVars>>

\* the calls begun so far
LimiterBegun ==
    Len(limiter.calls)
    + Cardinality({i \in LimiterThreads : limiter.th[i].pc = "lock"})

\* a thread enters is_allowed or get_remaining and reads time.time()
LimiterEnter(i) ==
    /\ limiter.th[i].pc = "idle"
    /\ LimiterBegun < MaxLimiterCalls
    /\ \E name \in {"is_allowed", "get_remaining"}, user_id \in LimiterUsers :
          limiter' = [limiter EXCEPT
                        !.th[i] = [pc |-> "lock", op |-> name, user |-> user_id,
                                   now |-> limiter.t]]
    /\ LimiterFrame

\* the call of thread i after its body came to windows, ok and remaining
LimiterReturned(i, windows, ok, remaining) ==
    /\ limiter' = [limiter EXCEPT
                     !.windows = windows,
                     !.th[i] = LimiterIdle,
                     !.calls = Append(@, [op |-> limiter.th[i].op,
                                          user |-> limiter.th[i].user,
                                          now |-> limiter.th[i].now,
                                          ok |-> ok,
                                          remaining |-> remaining])]
    /\ LimiterFrame

\* is_allowed gets the lock and runs its body
IsAllowedLocked(i, r) ==
    LimiterReturned(i, r.windows, r.ok, 0)

\* a thread gets the lock and runs the body of its method
LimiterLocked(i) ==
    /\ limiter.th[i].pc = "lock"
    /\ IF limiter.th[i].op = "is_allowed"
       THEN IsAllowedLocked(i, IsAllowed(limiter.windows, limiter.th[i].user,
                                         limiter.th[i].now))
       ELSE LimiterReturned(i, limiter.windows, FALSE,
                            GetRemaining(limiter.windows, limiter.th[i].user,
                                         limiter.th[i].now))

\* a second passes
LimiterTick ==
    /\ limiter.t < MaxLimiterTime
    /\ limiter' = [limiter EXCEPT !.t = @ + 1]
    /\ LimiterFrame

LimiterNext ==
    \/ \E i \in LimiterThreads : LimiterEnter(i)
    \/ \E i \in LimiterThreads : LimiterLocked(i)
    \/ LimiterTick

SpecLimiter == LimiterInit /\ [][LimiterNext]_vars

-----------------------------------------------------------------------------
(* utils.chunking.chunk_message *)

\* text.split(" ")
RECURSIVE SplitFrom(_, _, _)
SplitFrom(s, word, words) ==
    IF s = "" THEN Append(words, word)
    ELSE IF Head(s) = " " THEN SplitFrom(Tail(s), "", Append(words, word))
    ELSE SplitFrom(Tail(s), word \o Head(s), words)

Split(s) ==
    SplitFrom(s, "", <<>>)

\* s[:k], k of either sign
SliceTo(s, k) ==
    IF k >= 0 THEN SubSeq(s, 1, Min(k, Len(s)))
    ELSE SubSeq(s, 1, Max(0, Len(s) + k))

\* f"Part {i}/{n}: "
PartPrefix(i, n) ==
    "Part " \o Digits(i) \o "/" \o Digits(n) \o ": "

\* candidate = (current + " " + word).strip() if current else word
Candidate(current, word) ==
    IF current # "" THEN Strip(current \o " " \o word) ELSE word

\* while len(word) > max_len: raw_chunks.append(word[:max_len]); word = word[max_len:]
RECURSIVE ForceSplit(_, _, _)
ForceSplit(raw_chunks, word, max_len) ==
    IF Len(word) > max_len
    THEN ForceSplit(Append(raw_chunks, SubSeq(word, 1, max_len)),
                    SubSeq(word, max_len + 1, Len(word)), max_len)
    ELSE [raw_chunks |-> raw_chunks, word |-> word]

\* the loop over the words, and the append of what is left after it
RECURSIVE PackWords(_, _, _, _)
PackWords(words, max_len, raw_chunks, current) ==
    IF words = <<>>
    THEN IF current # "" THEN Append(raw_chunks, current) ELSE raw_chunks
    ELSE IF Len(Candidate(current, Head(words))) <= max_len
    THEN PackWords(Tail(words), max_len, raw_chunks, Candidate(current, Head(words)))
    ELSE PackWords(Tail(words), max_len,
                   ForceSplit(IF current # "" THEN Append(raw_chunks, current)
                              ELSE raw_chunks,
                              Head(words), max_len).raw_chunks,
                   ForceSplit(<<>>, Head(words), max_len).word)

\* the loop that adds "Part X/N: " and trims the chunk so the prefix fits
AddPrefixes(raw_chunks, max_len) ==
    [i \in 1 .. Len(raw_chunks) |->
        IF Len(PartPrefix(i, Len(raw_chunks)) \o raw_chunks[i]) <= max_len
        THEN PartPrefix(i, Len(raw_chunks)) \o raw_chunks[i]
        ELSE PartPrefix(i, Len(raw_chunks))
             \o SliceTo(raw_chunks[i], max_len - Len(PartPrefix(i, Len(raw_chunks))))]

\* what raw_chunks holds after the loop over the words
RawChunks(t, max_len) ==
    PackWords(Split(t), max_len, <<>>, "")

chunk_message(t, max_len) ==
    IF Len(t) <= max_len THEN <<t>>
    ELSE IF Len(RawChunks(t, max_len)) = 1 THEN RawChunks(t, max_len)
    ELSE AddPrefixes(RawChunks(t, max_len), max_len)

-----------------------------------------------------------------------------
(* SpecChunk: chunk_message called on its own, as the unit tests call it *)

\* the words a text is made of: none, short ones, and one longer than a
\* small max_len
ChunkWords == {"", "a", "ab", "bbbbbb"}

RECURSIVE JoinWords(_)
JoinWords(words) ==
    IF Len(words) = 1 THEN words[1]
    ELSE words[1] \o " " \o JoinWords(Tail(words))

\* the texts: every text is its words joined by single spaces
ChunkTexts ==
    {JoinWords(words) : words \in UNION {[1 .. n -> ChunkWords] : n \in 1 .. MaxChunkWords}}

\* a max_len shorter than the prefix and one longer than it
ChunkLens == {3, 12}

ChunkInit ==
    /\ op \in [name : {"chunk_message"}, text : ChunkTexts, max_len : ChunkLens,
               returned : {FALSE}, chunks : {<<>>}]
    /\ run = NoRun
    /\ limiter = NoLimiter
    /\ gateway = NoGateway
    /\ retry = NoRetry
    /\ cache = NoCache
    /\ telegram = NoTelegram
    /\ sessions = <<>>
    /\ sessions_dirty = FALSE
    /\ last_session_save = 0
    /\ disk = NoFile
    /\ now = 0
    /\ msg = NoMessage
    /\ llm = "<not called>"
    /\ generated = <<>>
    /\ response = None
    /\ raised = FALSE
    /\ handled = 0
    /\ ticks = 0
    /\ heap = <<>>
    /\ refs = <<>>
    /\ thr = [t \in Threads |-> IdleThread]
    /\ base = <<>>
    /\ text = ""
    /\ spc = "idle"
    /\ sent = <<>>

\* chunks = chunk_message(text, max_len)
ChunkCall ==
    /\ ~op.returned
    /\ op' = [op EXCEPT !.returned = TRUE,
                        !.chunks = chunk_message(op.text, op.max_len)]
    /\ UNCHANGED <<sendVars, botVars, run, limiter, utilVars, concVars>>

ChunkNext == ChunkCall

SpecChunk == ChunkInit /\ [][ChunkNext]_vars

-----------------------------------------------------------------------------
(* radio_gateway.RadioGateway in front of the bot server in distributed    *)
(* mode: handle_message, _forward_to_bot, _send_response, and the bot's     *)
(* /api/message route behind them                                           *)

PART_SEPARATOR == "\n---PART---\n"

\* text.split("\n---PART---\n")
RECURSIVE SplitParts(_, _)
SplitParts(t, part) ==
    IF t = "" THEN <<part>>
    ELSE IF StartsWith(t, PART_SEPARATOR)
    THEN <<part>> \o SplitParts(SubSeq(t, Len(PART_SEPARATOR) + 1, Len(t)), "")
    ELSE SplitParts(Tail(t), part \o Head(t))

\* the parts that are not blank, stripped
RECURSIVE StrippedParts(_)
StrippedParts(parts) ==
    IF parts = <<>> THEN <<>>
    ELSE IF Strip(Head(parts)) # ""
    THEN <<Strip(Head(parts))>> \o StrippedParts(Tail(parts))
    ELSE StrippedParts(Tail(parts))

\* _send_response(text, channel_idx): the texts handed to mesh.send_message
SendResponse(t) ==
    IF Contains(t, PART_SEPARATOR) THEN StrippedParts(SplitParts(t, ""))
    ELSE <<t>>

\* what the POST of _forward_to_bot can come to: the request reaches the bot
\* server, or fails on the way, or is answered by something else
HttpKinds ==
    {"bot", "request_exception", "invalid_json", "json_not_object",
     "json_without_response", "json_text", "json_number"}

\* response bodies of a server that is not this bot
GatewayTexts == {"ok", "One.\n---PART---\n Two. \n---PART---\n "}

HttpOutcomes ==
    {[kind |-> k, response |-> ""] : k \in HttpKinds \ {"json_text"}}
    \cup {[kind |-> "json_text", response |-> t] : t \in GatewayTexts}

\* the body of the bot's /api/message route: the JSON returned, or status 500
\* when handle_message raised (r is what handle_message came to)
HandleApiMessage(r) ==
    IF r.raised THEN [status |-> 500, response |-> ""]
    ELSE [status |-> 200,
          response |-> IF r.text \in {None, ""} THEN "" ELSE r.text]

\* _forward_to_bot(message): [raised, is_str, value], value being None or the
\* "response" of the JSON; raised when an exception other than
\* RequestException, KeyError and ValueError comes up
ForwardToBot(http, r) ==
    IF http.kind = "bot"
    THEN IF HandleApiMessage(r).status = 500
         THEN [raised |-> FALSE, is_str |-> TRUE, value |-> None]
         ELSE [raised |-> FALSE, is_str |-> TRUE,
               value |-> HandleApiMessage(r).response]
    ELSE IF http.kind \in {"request_exception", "invalid_json",
                           "json_without_response"}
    THEN [raised |-> FALSE, is_str |-> TRUE, value |-> None]
    ELSE IF http.kind = "json_not_object"
    THEN [raised |-> TRUE, is_str |-> TRUE, value |-> None]
    ELSE IF http.kind = "json_number"
    THEN [raised |-> FALSE, is_str |-> FALSE, value |-> "1"]
    ELSE [raised |-> FALSE, is_str |-> TRUE, value |-> http.response]

\* no RadioGateway yet: the counters of a gateway that has handled nothing
GatewayStart(filtered) ==
    [name |-> "gateway", filtered |-> filtered, allowed_channel_idx |-> 1,
     messages_received |-> 0, messages_forwarded |-> 0, messages_failed |-> 0,
     responses_sent |-> 0, raised |-> FALSE, passed |-> FALSE, http |-> None]

\* the gateway after handle_message(message), fwd being what _forward_to_bot
\* came to.  A response that is not a string is counted as forwarded, and the
\* TypeError of the `in` test of _send_response is caught and counted as failed
GatewayHandled(g, message, fwd, http) ==
    IF g.filtered /\ message.channel_idx # g.allowed_channel_idx
    THEN [g EXCEPT !.messages_received = @ + 1, !.passed = FALSE, !.http = None]
    ELSE IF fwd.raised \/ fwd.value \in {None, ""}
    THEN [g EXCEPT !.messages_received = @ + 1, !.messages_failed = @ + 1,
                   !.passed = TRUE, !.http = http.kind]
    ELSE IF ~fwd.is_str
    THEN [g EXCEPT !.messages_received = @ + 1, !.messages_forwarded = @ + 1,
                   !.messages_failed = @ + 1, !.passed = TRUE, !.http = http.kind]
    ELSE [g EXCEPT !.messages_received = @ + 1, !.messages_forwarded = @ + 1,
                   !.responses_sent = @ + 1, !.passed = TRUE, !.http = http.kind]

\* what the gateway hands to mesh.send_message in that call
GatewaySent(g, message, fwd) ==
    IF (g.filtered /\ message.channel_idx # g.allowed_channel_idx)
       \/ fwd.raised \/ fwd.value \in {None, ""} \/ ~fwd.is_str
    THEN <<>>
    ELSE SendResponse(fwd.value)

\* the story of more than MAX_MSG_LEN characters a backend can tell
LongStory == MkText(LongStoryLen, "The tunnel goes on. ")

\* what _call_ollama can come to on the bot server
GatewayCalls ==
    {CallOllama([kind |-> "request_exception", response |-> ""]),
     CallOllama([kind |-> "json", response |-> " A cave.\n1:In 2:Out 3:Wait "]),
     CallOllama([kind |-> "json", response |-> LongStory])}

GatewayMessages ==
    [sender : {"Alice"}, content : {"!help", "!adv", "1", "hello"},
     channel_idx : {0, 1}]

GatewayInit ==
    /\ gateway \in {GatewayStart(filtered) : filtered \in BOOLEAN}
    /\ sessions = <<>>
    /\ sessions_dirty = FALSE
    /\ last_session_save = 0
    /\ disk = NoFile
    /\ now = 1
    /\ msg = NoMessage
    /\ llm = "<not called>"
    /\ generated = <<>>
    /\ response = None
    /\ raised = FALSE
    /\ handled = 0
    /\ ticks = 0
    /\ op = NoOp
    /\ run = NoRun
    /\ limiter = NoLimiter
    /\ retry = NoRetry
    /\ cache = NoCache
    /\ telegram = NoTelegram
    /\ heap = <<>>
    /\ refs = <<>>
    /\ thr = [t \in Threads |-> IdleThread]
    /\ base = <<>>
    /\ text = ""
    /\ spc = "idle"
    /\ sent = <<>>

\* the bot server after the route has run handle_message, which came to r;
\* in distributed mode handle_message sends nothing itself
BotServed(message, r) ==
    /\ sessions' = r.st.sessions
    /\ sessions_dirty' = r.st.dirty
    /\ last_session_save' = r.st.last_save
    /\ disk' = r.st.disk
    /\ msg' = message
    /\ llm' = r.llm
    /\ generated' = r.gen
    /\ response' = r.text
    /\ raised' = r.raised

\* the request does not reach the bot server
BotNotReached(message) ==
    /\ msg' = message
    /\ response' = None
    /\ UNCHANGED <<storeVars, llm, generated, raised>>

\* the gateway's handle_message(message), the POST coming to http and, when it
\* reaches the bot, the bot's handle_message coming to r
GatewayHandleWith(message, http, r) ==
    /\ gateway' = GatewayHandled(gateway, message, ForwardToBot(http, r), http)
    /\ sent' = GatewaySent(gateway, message, ForwardToBot(http, r))
    /\ IF http.kind = "bot"
          /\ ~(gateway.filtered /\ message.channel_idx # gateway.allowed_channel_idx)
       THEN BotServed(message, r)
       ELSE BotNotReached(message)
    /\ handled' = handled + 1
    /\ UNCHANGED <<text, spc, now, ticks, op, run, limiter, retry, cache, telegram, concVars>>

\* the radio hands a message to the gateway
GatewayHandle ==
    /\ handled < MaxGatewayMsgs
    /\ \E message \in GatewayMessages, http \in HttpOutcomes :
          \E call \in IF MayCallBackend(Strip(message.content))
                      THEN GatewayCalls ELSE {[raised |-> FALSE, value |-> None]} :
             GatewayHandleWith(message, http,
                               HandleMessageAt(Store, message, now, "ok", call, "ok"))

GatewayNext == GatewayHandle

SpecGateway == GatewayInit /\ [][GatewayNext]_vars

-----------------------------------------------------------------------------
(* telegram_bot.MCADVTelegramBot: the API helpers start_adventure,          *)
(* make_choice and quit_adventure in front of the bot server                *)

\* the session keys _session_key gives a private chat and a group chat
TelegramKeys == {"user_7", "group_9"}

\* _session_key_to_channel(session_key) == abs(hash(session_key)) % (10**9):
\* some number for each key, different keys getting different numbers
SessionKeyToChannel(session_key) ==
    IF session_key = "user_7" THEN 700 ELSE 900

\* whether _parse_story_response(raw) finds choices, for a reply in the
\* format of _format_story_message: a digit, a colon and a label
HasChoices(raw) ==
    \E i \in 1 .. Len(raw) - 2 :
       /\ SubSeq(raw, i, i) \in {"1", "2", "3", "4", "5", "6", "7", "8", "9", "0"}
       /\ SubSeq(raw, i + 1, i + 1) = ":"
       /\ ~IsSpace(SubSeq(raw, i + 2, i + 2))

\* the JSON body of the POST to /api/message
TelegramMessage(content, channel_idx) ==
    [sender |-> "telegram_user", content |-> content, channel_idx |-> channel_idx]

\* the message an API helper posts for a session key
TelegramPost(call, session_key) ==
    IF call.name = "start_adventure"
    THEN TelegramMessage("!adv " \o call.theme, SessionKeyToChannel(session_key))
    ELSE TelegramMessage(IF call.name = "make_choice" THEN Digits(call.choice)
                         ELSE "!quit",
                         telegram.sessions[session_key].channel_idx)

\* whether the helper posts at all: make_choice and quit_adventure return
\* early for a key without a session
TelegramPosts(call, session_key) ==
    call.name = "start_adventure" \/ session_key \in DOMAIN telegram.sessions

\* response.json().get("response", "") of a request the server answered
RawOf(r) ==
    HandleApiMessage(r).response

\* self.sessions after the helper, the server having answered with status 200
TelegramSessions(call, session_key, raw) ==
    IF call.name = "start_adventure"
    THEN (session_key :> [theme |-> call.theme, status |-> "active",
                          channel_idx |-> SessionKeyToChannel(session_key)])
         @@ telegram.sessions
    ELSE IF call.name = "make_choice"
    THEN IF ~HasChoices(raw) \/ Contains(raw, "THE END")
         THEN [telegram.sessions EXCEPT ![session_key].status = "finished"]
         ELSE telegram.sessions
    ELSE Without(telegram.sessions, {session_key})

\* self.sessions after a helper whose request failed: only quit_adventure
\* goes on
TelegramSessionsFailed(call, session_key) ==
    IF call.name = "quit_adventure" /\ session_key \in DOMAIN telegram.sessions
    THEN Without(telegram.sessions, {session_key})
    ELSE telegram.sessions

TelegramCalls ==
    {[name |-> "start_adventure", theme |-> th, choice |-> 0] : th \in {"fantasy", "horror"}}
    \cup {[name |-> "make_choice", theme |-> "", choice |-> c] : c \in {1, 2}}
    \cup {[name |-> "quit_adventure", theme |-> "", choice |-> 0]}

TelegramInit ==
    /\ telegram = [name |-> "telegram", sessions |-> <<>>, session_key |-> None,
                   call |-> None, posted |-> FALSE]
    /\ sessions = <<>>
    /\ sessions_dirty = FALSE
    /\ last_session_save = 0
    /\ disk = NoFile
    /\ now = 1
    /\ msg = NoMessage
    /\ llm = "<not called>"
    /\ generated = <<>>
    /\ response = None
    /\ raised = FALSE
    /\ handled = 0
    /\ ticks = 0
    /\ op = NoOp
    /\ run = NoRun
    /\ limiter = NoLimiter
    /\ gateway = NoGateway
    /\ retry = NoRetry
    /\ cache = NoCache
    /\ heap = <<>>
    /\ refs = <<>>
    /\ thr = [t \in Threads |-> IdleThread]
    /\ base = <<>>
    /\ text = ""
    /\ spc = "idle"
    /\ sent = <<>>

TelegramFrame ==
    UNCHANGED <<sendVars, now, ticks, op, run, limiter, gateway, retry, cache,
                concVars>>

\* the helper runs and its request is answered by the bot server, whose
\* handle_message comes to r
TelegramServed(call, session_key, r) ==
    /\ BotServed(TelegramPost(call, session_key), r)
    /\ telegram' = [telegram EXCEPT
                      !.sessions = IF r.raised
                                   THEN TelegramSessionsFailed(call, session_key)
                                   ELSE TelegramSessions(call, session_key, RawOf(r)),
                      !.session_key = session_key, !.call = call.name,
                      !.posted = TRUE]
    /\ handled' = handled + 1
    /\ TelegramFrame

\* the helper returns early, or its request does not reach the server
TelegramUnserved(call, session_key) ==
    /\ telegram' = [telegram EXCEPT
                      !.sessions = TelegramSessionsFailed(call, session_key),
                      !.session_key = session_key, !.call = call.name,
                      !.posted = FALSE]
    /\ handled' = handled + 1
    /\ UNCHANGED <<storeVars, msg, llm, generated, response, raised>>
    /\ TelegramFrame

\* one of the API helpers is called for one of the session keys
TelegramCall ==
    /\ handled < MaxTelegramCalls
    /\ \E call \in TelegramCalls, session_key \in TelegramKeys :
          \/ /\ TelegramPosts(call, session_key)
             /\ \E answer \in {CallOllama([kind |-> "request_exception", response |-> ""]),
                               CallOllama([kind |-> "json", response |-> "You won! THE END"])} :
                   TelegramServed(call, session_key,
                                  HandleMessageAt(Store, TelegramPost(call, session_key),
                                                  now, "ok", answer, "ok"))
          \/ TelegramUnserved(call, session_key)

TelegramNext == TelegramCall

SpecTelegram == TelegramInit /\ [][TelegramNext]_vars

-----------------------------------------------------------------------------
(* Claims C5..C10: sessions across handle_message *)

\* a step of HandleMessage
IsHandleStep == handled' = handled + 1

\* the session key and the stripped text of the message last handled
LastKey == msg.sender

LastCommand == Strip(msg.content)

\* whether the last call got a story text from the backend
GotStory == llm \notin {None, "<not called>", "<raised>"}

\* the node of the built-in tree of theme th with id nid
TreeNode(th, nid) == FALLBACK_STORIES[th][nid]

\* the formatted message of a node: its text, and the numbered choices on a
\* second line when it has any
Formatted(node) ==
    IF node.choices = <<>> THEN node.text
    ELSE node.text \o "\n1:" \o node.choices[1] \o " 2:" \o node.choices[2]
         \o " 3:" \o node.choices[3]

\* C5: after handle_message has processed any command under any backend
\* outcome, no record in the session store has status 'finished'.
C5_NoFinishedStored ==
    \A key \in DOMAIN sessions : Get(sessions[key], "status", None) # "finished"

\* the themes a start command names in Contents
NamedTheme(command) ==
    IF Lower(command) = "!adv scifi" THEN "scifi" ELSE "fantasy"

\* the record a start command creates for theme th
IsFresh(session, th) ==
    /\ session.status = "active"
    /\ session.theme = th
    /\ session.node = "start"
    /\ session.history = <<>>

\* whether the choice in a step of HandleMessage ended the story: the backend
\* text holds the end marker, or the fallback moved to a node without choices
EndedStory ==
    /\ msg'.content \in {"1", "2"}
    /\ generated' # <<>>
    /\ \/ llm' \notin {None} /\ Contains(Upper(llm'), "THE END")
       \/ llm' = None /\ TreeNode(generated'.theme, generated'.node).choices = <<>>

\* C6: a choice that reaches a terminal node or generated text with the end
\* marker leaves no record under the key, and a start command under a key,
\* with or without a record there, leaves a fresh active record of its theme
\* at the entry node with empty history.
C6_FinishThenRestart ==
    [][IsHandleStep /\ ~raised' =>
          /\ EndedStory => msg'.sender \notin DOMAIN sessions'
          /\ IsStartCommand(Lower(Strip(msg'.content))) =>
                /\ msg'.sender \in DOMAIN sessions'
                /\ IsFresh(sessions'[msg'.sender], NamedTheme(Strip(msg'.content)))
      ]_vars

\* the id of the node the fallback is to move to in a step of HandleMessage:
\* the entry node for a start, the current node's next[choice] for a choice
ExpectedNodeId ==
    IF msg'.content \in {"1", "2"}
    THEN LET session == sessions[msg'.sender]
         IN TreeNode(session.theme, session.node).next[msg'.content]
    ELSE "start"

\* C7: when the backend call yields no text, _generate_story returns the
\* formatted fallback node (the entry node for a start, the node named by the
\* current node's next mapping for a choice), stores that node id in the
\* session, and sets status 'finished' iff the node has no choices.
C7_FallbackStep ==
    [][IsHandleStep /\ llm' = None =>
          LET node == TreeNode(generated'.theme, ExpectedNodeId)
          IN /\ response' = Formatted(node)
             /\ generated'.node = ExpectedNodeId
             /\ generated'.status = "finished" <=> node.choices = <<>>
             /\ generated'.status \in {"finished", "active"}
      ]_vars

\* a choice on the fallback path has reached a node without choices
C7_Witness ==
    /\ llm = None
    /\ LastCommand = "1"
    /\ generated # <<>>
    /\ generated.status = "finished"
    /\ TreeNode(generated.theme, generated.node).choices = <<>>

\* C8: for every failure mode of the backend call, an unexpected exception
\* included, no exception propagates out of _generate_story or handle_message.
C8_NoExceptionEscapes == raised = FALSE

\* C9: after a backend call succeeds with non-empty text, that text is the
\* newest entry of the session's stored history.
C9_StoryInHistory ==
    GotStory =>
        /\ generated.history # <<>>
        /\ generated.history[Len(generated.history)] = llm

-----------------------------------------------------------------------------
(* Claims C11..C20 *)

\* a step that is a direct call of the method called name
IsCall(name) == handled' = handled + 1 /\ op'.name = name

\* whether a record is older than the expiry time at time t
TooOld(session, t) ==
    t - (IF "last_active" \in DOMAIN session THEN session.last_active ELSE 0)
        > SESSION_EXPIRY_SECONDS

\* C11: after _expire_sessions has run at time now, no record with
\* now - last_active > SESSION_EXPIRY_SECONDS remains, and every record with
\* now - last_active <= SESSION_EXPIRY_SECONDS is present with unchanged contents.
C11_Expiry ==
    [][IsCall("expire") =>
          /\ DOMAIN sessions' \subseteq DOMAIN sessions
          /\ \A key \in DOMAIN sessions :
                IF TooOld(sessions[key], now)
                THEN key \notin DOMAIN sessions'
                ELSE key \in DOMAIN sessions' /\ sessions'[key] = sessions[key]
      ]_vars

\* _expire_sessions has removed a record (its write was attempted, and
\* failed) and kept another that is exactly SESSION_EXPIRY_SECONDS old
C11_Witness ==
    /\ op.name = "expire"
    /\ op.w = "oserror"
    /\ DOMAIN sessions = {"Bob"}
    /\ now - sessions["Bob"].last_active = SESSION_EXPIRY_SECONDS

\* the session map after one store method has run alone on it at time now
AfterAlone(ss, t) ==
    IF thr[t].op = "update"
    THEN (ConcKey :> (("last_active" :> now) @@ thr[t].data
                      @@ (IF ConcKey \in DOMAIN ss THEN ss[ConcKey] ELSE <<>>)))
         @@ ss
    ELSE IF thr[t].op = "clear"
         THEN [key \in DOMAIN ss \ {ConcKey} |-> ss[key]]
         ELSE ss

\* every thread has returned from its method
AllDone == \A t \in Threads : thr[t].pc = "done"

\* C12: two concurrent _update_session calls on one key, or an
\* _update_session concurrent with a _clear_session on that key, leave the
\* store as if the two had run one after the other in some order.
C12_Serialized ==
    /\ AllDone
    /\ {thr[1].op, thr[2].op} \in {{"update"}, {"update", "clear"}}
    => \/ sessions = AfterAlone(AfterAlone(base, 1), 2)
       \/ sessions = AfterAlone(AfterAlone(base, 2), 1)

\* C13: a _get_session concurrent with an _update_session on the same key
\* sees a record with none of the update's effects or with all of them.
C13_NoPartialRead ==
    \A r \in Threads, u \in Threads :
       thr[r].op = "get" /\ thr[r].pc = "done" /\ thr[u].op = "update"
       => LET before == IF ConcKey \in DOMAIN base THEN base[ConcKey] ELSE <<>>
          IN \/ thr[r].seen = before
             \/ thr[r].seen = ("last_active" :> now) @@ thr[u].data @@ before

\* the graph a theme selects: its own, or the fantasy graph when unknown
SelectedGraph(theme) ==
    IF theme \in {"fantasy", "scifi", "horror"}
    THEN FALLBACK_STORIES[theme] ELSE FALLBACK_STORIES["fantasy"]

\* the node a fallback call starts from in a graph: the node of the stored
\* id, the entry node when there is no record or the id is not in the graph
CurrentNode(graph, key) ==
    IF key \in DOMAIN sessions /\ "node" \in DOMAIN sessions[key]
       /\ sessions[key].node \in DOMAIN graph
    THEN graph[sessions[key].node] ELSE graph["start"]

\* C14: a fallback advance never fails and lands on a node of the selected
\* graph: an unknown theme selects the fantasy graph, a current node id that
\* is not in the graph counts as 'start', and a choice absent from the
\* current node's next mapping yields 'start'.
C14_FallbackTotal ==
    [][IsCall("fallback") =>
          LET graph == SelectedGraph(op'.theme)
              current == CurrentNode(graph, op'.key)
              landed == sessions'[op'.key].node
          IN /\ raised' = FALSE
             /\ landed \in DOMAIN graph
             /\ response' = Formatted(graph[landed])
             /\ op'.choice \notin DOMAIN current.next => landed = "start"
             /\ op'.choice \in DOMAIN current.next =>
                   landed = current.next[op'.choice]
      ]_vars

\* a call with an unknown theme and a choice that is in no next mapping has
\* come back to the entry node of the fantasy graph from another node
C14_Witness ==
    /\ op.name = "fallback"
    /\ op.theme = "pirate"
    /\ op.choice = "9"
    /\ handled = 2
    /\ sessions[op.key].node = "start"
    /\ response = Formatted(FALLBACK_STORIES["fantasy"]["start"])

\* C15: in each of the three theme graphs a node 'start' exists, every next
\* value is a node id of the same graph, a node has an empty next mapping iff
\* it has no choices, and a node with a non-empty next mapping has as many
\* next entries as choices; so a call for a theme leaves the session at a node
\* of that theme's graph.
C15_GraphClosure ==
    /\ DOMAIN FALLBACK_STORIES = {"fantasy", "scifi", "horror"}
    /\ \A th \in DOMAIN FALLBACK_STORIES :
          LET graph == FALLBACK_STORIES[th]
          IN /\ "start" \in DOMAIN graph
             /\ \A n \in DOMAIN graph :
                   /\ \A token \in DOMAIN graph[n].next :
                         graph[n].next[token] \in DOMAIN graph
                   /\ DOMAIN graph[n].next = {} <=> Len(graph[n].choices) = 0
                   /\ DOMAIN graph[n].next # {} =>
                         Cardinality(DOMAIN graph[n].next) = Len(graph[n].choices)
    /\ op.name = "fallback" /\ op.theme \in DOMAIN FALLBACK_STORIES =>
          sessions[op.key].node \in DOMAIN FALLBACK_STORIES[op.theme]

\* a fallback call has followed a next entry of the horror graph to a node
\* without next entries
C15_Witness ==
    /\ op.name = "fallback"
    /\ op.theme = "horror"
    /\ op.choice = "2"
    /\ sessions[op.key].node \in DOMAIN FALLBACK_STORIES["horror"] \ {"start"}
    /\ DOMAIN FALLBACK_STORIES["horror"][sessions[op.key].node].next = {}

\* C16: on the fallback path, for every theme, every non-terminal node and
\* every token of its next mapping, a choice from that node moves the session
\* to next[token]; the reply has a numbered choice line iff the new node has
\* choices, and the status becomes 'finished' iff it has none.
C16_FallbackAdvance ==
    [][/\ IsCall("fallback")
       /\ op'.theme \in {"fantasy", "scifi", "horror"}
       /\ op'.key \in DOMAIN sessions
       /\ sessions[op'.key].node \in DOMAIN FALLBACK_STORIES[op'.theme]
       /\ op'.choice \in
             DOMAIN FALLBACK_STORIES[op'.theme][sessions[op'.key].node].next
       => LET graph == FALLBACK_STORIES[op'.theme]
              target == graph[sessions[op'.key].node].next[op'.choice]
              after == sessions'[op'.key]
          IN /\ after.node = target
             /\ Contains(response', "\n1:") <=> graph[target].choices # <<>>
             /\ after.status = "finished" <=> graph[target].choices = <<>>
             /\ after.status \in {"finished", "active"}
      ]_vars

\* fantasy: from road the choice 1 has led to road_pay, which is terminal
C16_Witness ==
    /\ op.name = "fallback"
    /\ op.theme = "fantasy"
    /\ op.choice = "1"
    /\ sessions[op.key].node = "road_pay"
    /\ sessions[op.key].status = "finished"
    /\ response = "The troll reveals a shortcut to a hidden city. THE END"

\* the texts of CmdContents that are no command: not help, not a start
\* command, not quit/end, not status, not one of the choice tokens 1, 2, 3
UnrecognizedTexts == {"4", "hello", "", "!helpme"}

\* the records of ss that have not expired at time t are in ss2 as they were
KeepsUnexpired(ss, t, ss2) ==
    \A key \in DOMAIN ss :
        ~TooOld(ss[key], t) => key \in DOMAIN ss2 /\ ss2[key] = ss[key]

\* every record of ss2 was in ss and is as it was
NoneCreatedOrModified(ss, ss2) ==
    \A key \in DOMAIN ss2 : key \in DOMAIN ss /\ ss2[key] = ss[key]

\* C17: a message whose text is no recognised command produces no outbound
\* message at all: handle_message returns None without raising, nothing is
\* sent, and every record that has not expired is left unchanged, its
\* last_active included, with no record created.
C17_UnrecognizedIgnored ==
    [][IsHandleStep /\ msg'.content \in UnrecognizedTexts
       => /\ response' = None
          /\ ~raised'
          /\ sent' = <<>>
          /\ llm' = "<not called>"
          /\ KeepsUnexpired(sessions, now, sessions')
          /\ NoneCreatedOrModified(sessions, sessions')]_vars

\* an unrecognised text arrived from a sender with an adventure under way,
\* later than its last activity
C17_Witness ==
    /\ handled = 1
    /\ msg.content = "!helpme"
    /\ msg.sender = "Alice"
    /\ response = None
    /\ sent = <<>>
    /\ DOMAIN sessions = {"Alice", "Bob"}
    /\ sessions["Alice"].status = "active"
    /\ sessions["Alice"].last_active < now

\* the texts of CmdContents that are a choice token once stripped
ChoiceTexts == {"1", " 3 "}

\* C18: a choice token from a sender with no record, or with a record whose
\* status is not 'active', is answered with the 'No active adventure' text;
\* neither the backend nor the fallback traversal is invoked, and no record
\* is created or modified.
C18_ChoiceWithoutAdventure ==
    [][/\ IsHandleStep
       /\ msg'.content \in ChoiceTexts
       /\ \/ msg'.sender \notin DOMAIN sessions
          \/ sessions[msg'.sender].status # "active"
       => /\ response' = "No active adventure. Type !adv to start."
          /\ sent' = <<"No active adventure. Type !adv to start.">>
          /\ llm' = "<not called>"
          /\ generated' = <<>>
          /\ NoneCreatedOrModified(sessions, sessions')
          /\ KeepsUnexpired(sessions, now, sessions')]_vars

\* a choice arrived from a sender whose stored record is finished
C18_Witness ==
    /\ handled = 1
    /\ msg.content = "1"
    /\ msg.sender = "Alice"
    /\ "Alice" \in DOMAIN sessions
    /\ sessions["Alice"].status = "finished"
    /\ response = "No active adventure. Type !adv to start."

\* the texts of CmdContents that are the help or the status command
HelpOrStatusTexts == {"!help", "Help", "!status", "!STATE"}

\* theme, node, status and history of a record
StoryFields(session) ==
    [f \in {"theme", "node", "status", "history"} \cap DOMAIN session
       |-> session[f]]

\* the sender's record after the command has what it had before, and a
\* sender without a record has none after it
SenderSessionKept(key) ==
    IF key \in DOMAIN sessions
    THEN key \in DOMAIN sessions'
         /\ StoryFields(sessions'[key]) = StoryFields(sessions[key])
    ELSE key \notin DOMAIN sessions'

\* C19 as stated: help and status never change the sender's session.
C19_HelpStatusNeverChange ==
    [][IsHandleStep /\ msg'.content \in HelpOrStatusTexts
       => SenderSessionKept(msg'.sender)]_vars

\* C19: help and status leave the sender's session as it was unless it has
\* expired: a record that has not expired keeps its theme, node, status,
\* history and last_active, a record that has expired is removed by the
\* expiry pass that starts every command, and no record is created for a
\* sender that had none.
C19_HelpStatusKeepUnexpired ==
    [][IsHandleStep /\ msg'.content \in HelpOrStatusTexts
       => IF msg'.sender \in DOMAIN sessions
             /\ ~TooOld(sessions[msg'.sender], now)
          THEN msg'.sender \in DOMAIN sessions'
               /\ sessions'[msg'.sender] = sessions[msg'.sender]
          ELSE msg'.sender \notin DOMAIN sessions']_vars

\* the status command was answered for a sender whose record is kept at the
\* last second before it expires
C19_Witness ==
    /\ handled = 1
    /\ msg.content = "!STATE"
    /\ msg.sender = "Bob"
    /\ "Bob" \in DOMAIN sessions
    /\ now - sessions["Bob"].last_active = SESSION_EXPIRY_SECONDS
    /\ response = "Adventure active (horror). Enter 1, 2 or 3."

\* C20: _clear_session on a stored key removes that record only and writes
\* the file at once, however short the time since the last write: after a
\* successful write the file holds the map, the dirty flag is false and the
\* time of the last write is the time of the call. On an absent key it
\* changes nothing. Clearing the key again leaves what the first call left.
C20_ClearWritesAtOnce ==
    [][IsCall("clear")
       => /\ IF op'.key \in DOMAIN sessions
             THEN /\ DOMAIN sessions' = DOMAIN sessions \ {op'.key}
                  /\ \A key \in DOMAIN sessions' : sessions'[key] = sessions[key]
                  /\ op'.w = "ok"
                     => /\ disk' = [state |-> "valid", data |-> sessions']
                        /\ ~sessions_dirty'
                        /\ last_session_save' = now
             ELSE UNCHANGED storeVars
          /\ \A w \in WriteOutcomes :
                ClearSession(Store', op'.key, now', w) = Store']_vars

\* a stored record was cleared and the file written less than SAVE_INTERVAL
\* after the last write, another record staying in the map and in the file
C20_Witness ==
    /\ op.name = "clear"
    /\ op.w = "ok"
    /\ op.key = "Alice"
    /\ ticks = 2
    /\ now = 2
    /\ last_session_save = now
    /\ DOMAIN sessions = {"Bob"}
    /\ disk = [state |-> "valid", data |-> sessions]
    /\ ~sessions_dirty

\* C21: a _save_sessions without force writes the file only when the store
\* is dirty and at least SAVE_INTERVAL seconds have passed since the last
\* successful write, and otherwise leaves the file, the dirty flag and the
\* time of the last write as they were; a forced one writes whatever the
\* flag and the time. A write that succeeds stores the map, clears the flag
\* and sets the time of the last write to the time of the call, which is
\* never ahead of the clock, so that writes without force are at least
\* SAVE_INTERVAL seconds apart.
C21_BatchedSave ==
    /\ [](last_session_save <= now)
    /\ [][IsCall("save")
          => /\ sessions' = sessions
             /\ IF op'.force
                   \/ (sessions_dirty /\ now - last_session_save >= SAVE_INTERVAL)
                THEN op'.w = "ok"
                     => /\ disk' = [state |-> "valid", data |-> sessions]
                        /\ ~sessions_dirty'
                        /\ last_session_save' = now
                ELSE UNCHANGED storeVars]_vars

\* a save without force wrote a dirty store SAVE_INTERVAL seconds after the
\* bot was constructed
C21_Witness ==
    /\ op.name = "save"
    /\ ~op.force
    /\ op.w = "ok"
    /\ now = SAVE_INTERVAL
    /\ last_session_save = now
    /\ sessions # <<>>
    /\ disk = [state |-> "valid", data |-> sessions]
    /\ ~sessions_dirty

\* the outcomes of a write that fails with an OSError
FailedWrites == WriteOutcomes \ {"ok"}

C23_LoadNeverBlocks ==
    [][IsCall("load")
       => /\ ~raised'
          /\ sessions' = IF disk.state = "valid" /\ disk.data \in SessionMaps
                         THEN disk.data ELSE <<>>]_vars

\* the reply to a command of CmdContents from a sender without a record,
\* for the commands whose reply does not come from _generate_story
ReplyWithoutRecord(content) ==
    IF content \in ChoiceTexts \cup {"!status", "!STATE"}
    THEN "No active adventure. Type !adv to start."
    ELSE IF content \in {"!help", "Help"}
    THEN "MCADV: !adv[theme] start, 1/2/3 choose, !quit end. Themes: fantasy scifi horror"
    ELSE IF content \in {"!quit", "!End"}
    THEN "Adventure ended. Type !adv to start a new one."
    ELSE None

\* the texts of CmdContents that start an adventure
StartTexts == {"!adv", "!START Horror"}

\* C24: expiry comes before the dispatch of every command: when the sender's
\* record is older than the TTL as the command arrives, the command is
\* handled as for a sender without a record (a choice and a status get the
\* 'No active adventure' text and reach neither backend nor fallback, a
\* start begins at the start node with an empty history), every record
\* older than the TTL is gone afterwards, and the only message sent is the
\* reply to the command.
C24_ExpiryBeforeDispatch ==
    [][/\ IsHandleStep
       /\ msg'.sender \in DOMAIN sessions
       /\ TooOld(sessions[msg'.sender], now)
       => /\ \A key \in DOMAIN sessions :
                TooOld(sessions[key], now) /\ key # msg'.sender
                => key \notin DOMAIN sessions'
          /\ sent' = IF response' = None THEN <<>> ELSE <<response'>>
          /\ IF msg'.content \in StartTexts
             THEN msg'.sender \in DOMAIN sessions'
                  => /\ sessions'[msg'.sender].history = <<>>
                     /\ sessions'[msg'.sender].last_active = now
                     /\ llm' = None => sessions'[msg'.sender].node = "start"
             ELSE /\ response' = ReplyWithoutRecord(msg'.content)
                  /\ llm' = "<not called>"
                  /\ msg'.sender \notin DOMAIN sessions']_vars

\* a choice arrived from a sender whose adventure, still in the session
\* file as active, had expired: the record is gone and the reply is the one
\* for no adventure
C24_Witness ==
    /\ handled = 1
    /\ msg.sender = "Alice"
    /\ msg.content = "1"
    /\ "Alice" \notin DOMAIN sessions
    /\ "Alice" \in DOMAIN disk.data
    /\ disk.data["Alice"].status = "active"
    /\ now - disk.data["Alice"].last_active > SESSION_EXPIRY_SECONDS
    /\ response = "No active adventure. Type !adv to start."
    /\ sent = <<"No active adventure. Type !adv to start.">>

\* the step is a pass of the main loop
IsLoopStep == ticks' = ticks + 1 /\ op'.name = "loop"

\* the time of the last story-advancing event of a store that is not empty
LastEvent(ss) ==
    CHOOSE t \in {ss[key].last_active : key \in DOMAIN ss} :
        \A key \in DOMAIN ss : ss[key].last_active <= t

\* how often message m is among the messages sent
Times(m, frames) == Cardinality({i \in DOMAIN frames : frames[i] = m})

\* C25: global story reset: when at least one session is active and the
\* time since the last story-advancing event exceeds a day, the background
\* check clears the whole session store and emits exactly one reset
\* announcement; while the store holds no session no reset announcement is
\* emitted.
C25_GlobalReset ==
    [][IsLoopStep
       => IF /\ \E key \in DOMAIN sessions : sessions[key].status = "active"
             /\ now' - LastEvent(sessions) > DAY
          THEN sessions' = <<>> /\ Times(AUTO_RESET_24H, sent') = 1
          ELSE sessions = <<>> => Times(AUTO_RESET_24H, sent') = 0]_vars

\* the key of the channel a message came in on
ChannelKey(message) == "channel_" \o Digits(message.channel_idx)

\* C26: commands of different senders on one channel work on one shared
\* session stored under the channel key 'channel_<idx>': the store holds
\* records under channel keys only, a story one sender started is the
\* session another sender's status command reports, and a quit of any
\* sender removes the session of the channel, leaving no record of it.
C26_SharedChannelSession ==
    [][IsHandleStep
       => /\ DOMAIN sessions' \subseteq {ChannelKey(m) : m \in Messages}
          /\ LastCommand' = "!quit" => sessions' = <<>>
          /\ /\ LastCommand' = "!status"
             /\ \E key \in DOMAIN sessions :
                   sessions[key].status = "active" /\ ~TooOld(sessions[key], now)
             => response' # "No active adventure. Type !adv to start."]_vars

\* C27: in every reachable state the history of every stored session holds
\* at most HISTORY_KEPT entries, and an entry added to a history that holds
\* HISTORY_KEPT entries pushes out the oldest one: when the backend answers
\* a choice the entry for that choice comes last, after the entries there
\* were, without the oldest of them if there were HISTORY_KEPT.
C27_HistoryBounded ==
    /\ [](\A key \in DOMAIN sessions :
            "history" \in DOMAIN sessions[key]
            => Len(sessions[key].history) <= HISTORY_KEPT)
    /\ [][/\ IsHandleStep
          /\ msg'.sender \in DOMAIN sessions
          /\ msg'.sender \in DOMAIN sessions'
          /\ sessions[msg'.sender].status = "active"
          /\ msg'.content \in {"1", "3"}
          /\ GotStory'
          => sessions'[msg'.sender].history
             = (IF Len(sessions[msg'.sender].history) = HISTORY_KEPT
                THEN Tail(sessions[msg'.sender].history)
                ELSE sessions[msg'.sender].history)
               \o <<"chose " \o msg'.content>>]_vars

\* a choice was added to a full history: the oldest entry, 'chose 1', is gone
C27_Witness ==
    /\ handled = 1
    /\ msg.content = "3"
    /\ "Alice" \in DOMAIN sessions
    /\ sessions["Alice"].history
       = <<"chose 2", "chose 3", "chose 1", "chose 2", "chose 3">>

\* the is_allowed calls of the user that returned True with a time in
\* t0 .. t0 + window_seconds
GrantedIn(user_id, t0) ==
    {k \in DOMAIN limiter.calls :
        /\ limiter.calls[k].op = "is_allowed"
        /\ limiter.calls[k].user = user_id
        /\ limiter.calls[k].ok
        /\ limiter.calls[k].now \in t0 .. t0 + window_seconds}

\* C28: for each user, among the is_allowed calls whose times lie within
\* one span of window_seconds at most max_messages return True, also when
\* calls run on several threads; and a call is denied only when
\* max_messages earlier calls of the same user were granted, so that denied
\* calls and other users' calls do not count.
C28_RateLimit ==
    /\ \A user_id \in LimiterUsers : \A t0 \in 0 .. MaxLimiterTime :
          Cardinality(GrantedIn(user_id, t0)) <= max_messages
    /\ \A k \in DOMAIN limiter.calls :
          limiter.calls[k].op = "is_allowed" /\ ~limiter.calls[k].ok
          => Cardinality({j \in 1 .. k - 1 :
                            /\ limiter.calls[j].op = "is_allowed"
                            /\ limiter.calls[j].user = limiter.calls[k].user
                            /\ limiter.calls[j].ok}) >= max_messages

\* C29: get_remaining(user) equals max_messages minus the number of the
\* user's granted messages still inside the window, and at any instant
\* is_allowed(user) would return True iff get_remaining(user) is greater
\* than 0, also after is_allowed calls that ran concurrently.
C29_RemainingAgrees ==
    \A user_id \in LimiterUsers :
        /\ GetRemaining(limiter.windows, user_id, limiter.t)
           = max_messages
             - Cardinality(GrantedIn(user_id, limiter.t - window_seconds))
        /\ IsAllowed(limiter.windows, user_id, limiter.t).ok
           <=> GetRemaining(limiter.windows, user_id, limiter.t) > 0

\* the chunks without their "Part X/N: " prefixes
Unprefixed(chunks) ==
    IF Len(chunks) <= 1 THEN chunks
    ELSE [i \in 1 .. Len(chunks) |->
             SubSeq(chunks[i], Len(PartPrefix(i, Len(chunks))) + 1, Len(chunks[i]))]

RECURSIVE NonSpaceFrom(_, _)
NonSpaceFrom(s, kept) ==
    IF s = "" THEN kept
    ELSE NonSpaceFrom(Tail(s), IF Head(s) = " " THEN kept ELSE kept \o Head(s))

\* the characters of the words of s, in order
WordChars(s) ==
    NonSpaceFrom(s, "")

RECURSIVE Concat(_)
Concat(strs) ==
    IF strs = <<>> THEN "" ELSE Head(strs) \o Concat(Tail(strs))

\* C30: chunk_message preserves content: for every text and max_len the words of
\* the text appear in order in the chunks once the "Part X/N: " prefixes are
\* removed, no character of a word being dropped when the prefix is added.
\* Stated on the characters of the words, so that a word force-split over two
\* chunks still counts as appearing.
C30_ChunkingPreservesContent ==
    op.name = "chunk_message" /\ op.returned
    => WordChars(Concat(Unprefixed(op.chunks))) = WordChars(op.text)

-----------------------------------------------------------------------------
(* utils/retry.py: a function wrapped by retry_with_backoff is called once *)

\* the backoff_factor arguments
RetryFactors == {1, 2, 3}

\* the exceptions arguments, each the set of the class names of the tuple
RetryListings == {{"Exception"}, {"ValueError"}, {"ValueError", "KeyError"}}

\* what the wrapped function raises
ExceptionKinds == {"ValueError", "KeyError", "OSError", "KeyboardInterrupt"}

\* isinstance(exc, exceptions): KeyboardInterrupt is no Exception
Listed(kind, exceptions) ==
    \/ kind \in exceptions
    \/ "Exception" \in exceptions /\ kind # "KeyboardInterrupt"

\* no exception
NoException == [kind |-> None, attempt |-> 0]

\* wrapper(*args, **kwargs) entered: delay = 1.0, last_exc = None, and the
\* loop at its first attempt; calls and sleeps record what func and
\* time.sleep were called with
RetryStart(max_attempts, backoff_factor, exceptions) ==
    [name |-> "retry", max_attempts |-> max_attempts,
     backoff_factor |-> backoff_factor, exceptions |-> exceptions,
     attempt |-> 1, delay |-> 1, last_exc |-> NoException,
     calls |-> <<>>, sleeps |-> <<>>,
     pc |-> "call", value |-> 0, exc |-> NoException]

\* return func(*args, **kwargs): the call of this attempt returned
Returned(r) ==
    [r EXCEPT !.calls = Append(@, [raised |-> FALSE, kind |-> None]),
              !.pc = "returned",
              !.value = r.attempt]

\* func raised an exception the except clause does not name
Propagated(r, kind) ==
    [r EXCEPT !.calls = Append(@, [raised |-> TRUE, kind |-> kind]),
              !.pc = "raised",
              !.exc = [kind |-> kind, attempt |-> r.attempt]]

\* the end of the for loop: the next attempt, or raise last_exc
LoopOn(r) ==
    IF r.attempt < r.max_attempts
    THEN [r EXCEPT !.attempt = @ + 1]
    ELSE [r EXCEPT !.attempt = @ + 1, !.pc = "raised", !.exc = r.last_exc]

\* an except block that sleeps after every failed attempt
CaughtSleepingAlways(r, kind) ==
    LoopOn([r EXCEPT !.calls = Append(@, [raised |-> TRUE, kind |-> kind]),
                     !.last_exc = [kind |-> kind, attempt |-> r.attempt],
                     !.sleeps = Append(@, r.delay),
                     !.delay = @ * r.backoff_factor])

\* except exceptions as exc: the except block, then the loop goes on
Caught(r, kind) ==
    LoopOn([r EXCEPT !.calls = Append(@, [raised |-> TRUE, kind |-> kind]),
                     !.last_exc = [kind |-> kind, attempt |-> r.attempt],
                     !.sleeps = IF r.attempt < r.max_attempts
                                THEN Append(@, r.delay) ELSE @,
                     !.delay = IF r.attempt < r.max_attempts
                               THEN @ * r.backoff_factor ELSE @])

\* nothing but the wrapper changes
RetryFrame ==
    UNCHANGED <<sendVars, botVars, op, run, limiter, gateway, cache, telegram,
                concVars>>

\* func returns
RetryReturn ==
    /\ retry.pc = "call"
    /\ retry' = Returned(retry)
    /\ RetryFrame

\* func raises an exception of the exceptions tuple
RetryCatch ==
    /\ retry.pc = "call"
    /\ \E kind \in ExceptionKinds :
          /\ Listed(kind, retry.exceptions)
          /\ retry' = Caught(retry, kind)
    /\ RetryFrame

\* func raises another exception
RetryPropagate ==
    /\ retry.pc = "call"
    /\ \E kind \in ExceptionKinds :
          /\ ~Listed(kind, retry.exceptions)
          /\ retry' = Propagated(retry, kind)
    /\ RetryFrame

\* a wrapper of each decoration has been entered
RetryInit ==
    /\ retry \in {RetryStart(k, f, excs) : k \in 1..MaxRetryAttempts,
                                           f \in RetryFactors,
                                           excs \in RetryListings}
    /\ sessions = <<>>
    /\ sessions_dirty = FALSE
    /\ last_session_save = 0
    /\ disk = NoFile
    /\ now = 1
    /\ msg = NoMessage
    /\ llm = "<not called>"
    /\ generated = <<>>
    /\ response = None
    /\ raised = FALSE
    /\ handled = 0
    /\ ticks = 0
    /\ op = NoOp
    /\ run = NoRun
    /\ limiter = NoLimiter
    /\ gateway = NoGateway
    /\ cache = NoCache
    /\ telegram = NoTelegram
    /\ heap = <<>>
    /\ refs = <<>>
    /\ thr = [t \in Threads |-> IdleThread]
    /\ base = <<>>
    /\ text = ""
    /\ spc = "idle"
    /\ sent = <<>>

RetryNext == RetryReturn \/ RetryCatch \/ RetryPropagate

SpecRetry == RetryInit /\ [][RetryNext]_vars

-----------------------------------------------------------------------------
(* utils/cache.py: ResponseCache *)

\* ttl_seconds of the caches of SpecCache
CacheTtls == {1, 2}

\* the prompts, and the (theme, node_id) pairs, the calls are made with
CachePrompts == {"north", "south"}

CacheNodes == {<<"fantasy", "start">>, <<"scifi", "start">>}

\* the response or node data stored
CacheValues == {"told"}

\* _key(*parts): "|".join(parts), which the digest stands for
RECURSIVE CacheKey(_)
CacheKey(parts) ==
    IF Len(parts) = 1 THEN parts[1]
    ELSE parts[1] \o "|" \o CacheKey(Tail(parts))

\* key in self._cache
Cached(entries, key) ==
    \E i \in 1..Len(entries) : entries[i].key = key

\* the entries other than the one of key, in order
Others(entries, key) ==
    SelectSeq(entries, LAMBDA entry : entry.key # key)

\* the entry of key
EntryOf(entries, key) ==
    entries[CHOOSE i \in 1..Len(entries) : entries[i].key = key]

\* now - ts > self.ttl_seconds
Stale(entry, t, ttl) ==
    t - entry.ts > ttl

\* _evict_expired() at time t
EvictExpired(entries, t, ttl) ==
    SelectSeq(entries, LAMBDA entry : ~Stale(entry, t, ttl))

\* self._cache.move_to_end(key)
MoveToEnd(entries, key) ==
    Append(Others(entries, key), EntryOf(entries, key))

\* move_to_end if the key is there, then self._cache[key] = (value, time.time())
Stored(entries, key, value, t) ==
    Append(Others(entries, key), [key |-> key, value |-> value, ts |-> t])

\* while len(self._cache) > self.max_size: self._cache.popitem(last=False)
PopToSize(entries, max_size) ==
    IF Len(entries) > max_size
    THEN SubSeq(entries, Len(entries) - max_size + 1, Len(entries))
    ELSE entries

\* the entries popitem removed
Popped(entries, max_size) ==
    IF Len(entries) > max_size
    THEN SubSeq(entries, 1, Len(entries) - max_size)
    ELSE <<>>

\* ResponseCache(max_size, ttl_seconds): entries is the OrderedDict, oldest
\* first; used and uses record, apart from it, at which call each key was
\* last stored or successfully read; last is the call just made
NewCache(max_size, ttl_seconds) ==
    [name |-> "cache", max_size |-> max_size, ttl_seconds |-> ttl_seconds,
     entries |-> <<>>, used |-> <<>>, uses |-> 0,
     last |-> [op |-> "init", key |-> "", hit |-> FALSE, value |-> None,
               evicted |-> <<>>]]

\* _set(key, value) at time t
CacheSet(c, key, value, t) ==
    LET kept == EvictExpired(c.entries, t, c.ttl_seconds)
        stored == Stored(kept, key, value, t)
    IN [c EXCEPT !.entries = PopToSize(stored, c.max_size),
                 !.used = (key :> (c.uses + 1)) @@ @,
                 !.uses = @ + 1,
                 !.last = [op |-> "set", key |-> key, hit |-> FALSE,
                           value |-> value,
                           evicted |-> Popped(stored, c.max_size)]]

\* a _get that returns the value and leaves the order alone
CacheGetInPlace(c, key, t) ==
    IF ~Cached(c.entries, key)
    THEN [c EXCEPT !.last = [op |-> "get", key |-> key, hit |-> FALSE,
                             value |-> None, evicted |-> <<>>]]
    ELSE IF Stale(EntryOf(c.entries, key), t, c.ttl_seconds)
    THEN [c EXCEPT !.entries = Others(c.entries, key),
                   !.last = [op |-> "get", key |-> key, hit |-> FALSE,
                             value |-> None, evicted |-> <<>>]]
    ELSE [c EXCEPT !.used = (key :> (c.uses + 1)) @@ @,
                   !.uses = @ + 1,
                   !.last = [op |-> "get", key |-> key, hit |-> TRUE,
                             value |-> EntryOf(c.entries, key).value,
                             evicted |-> <<>>]]

\* _get(key) at time t
CacheGet(c, key, t) ==
    IF ~Cached(c.entries, key)
    THEN [c EXCEPT !.last = [op |-> "get", key |-> key, hit |-> FALSE,
                             value |-> None, evicted |-> <<>>]]
    ELSE IF Stale(EntryOf(c.entries, key), t, c.ttl_seconds)
    THEN [c EXCEPT !.entries = Others(c.entries, key),
                   !.last = [op |-> "get", key |-> key, hit |-> FALSE,
                             value |-> None, evicted |-> <<>>]]
    ELSE [c EXCEPT !.entries = MoveToEnd(c.entries, key),
                   !.used = (key :> (c.uses + 1)) @@ @,
                   !.uses = @ + 1,
                   !.last = [op |-> "get", key |-> key, hit |-> TRUE,
                             value |-> EntryOf(c.entries, key).value,
                             evicted |-> <<>>]]

\* size()
CacheSize(c) ==
    Len(c.entries)

\* a call of a ResponseCache method has left the cache as c
CacheCalled(c) ==
    /\ cache' = c
    /\ handled' = handled + 1
    /\ UNCHANGED <<sendVars, storeVars, now, msg, llm, generated, response, raised,
                   ticks, op, run, limiter, gateway, retry, telegram, concVars>>

\* cache_llm_response(prompt, response)
CacheLlmResponse ==
    /\ handled < MaxCacheCalls
    /\ \E prompt \in CachePrompts, value \in CacheValues :
           CacheCalled(CacheSet(cache, CacheKey(<<"llm", prompt>>), value, now))

\* get_cached_response(prompt)
GetCachedResponse ==
    /\ handled < MaxCacheCalls
    /\ \E prompt \in CachePrompts :
           CacheCalled(CacheGet(cache, CacheKey(<<"llm", prompt>>), now))

\* cache_story_node(theme, node_id, data)
CacheStoryNode ==
    /\ handled < MaxCacheCalls
    /\ \E node \in CacheNodes, value \in CacheValues :
           CacheCalled(CacheSet(cache, CacheKey(<<"node", node[1], node[2]>>), value, now))

\* get_story_node(theme, node_id)
GetStoryNode ==
    /\ handled < MaxCacheCalls
    /\ \E node \in CacheNodes :
           CacheCalled(CacheGet(cache, CacheKey(<<"node", node[1], node[2]>>), now))

\* a second passes
CacheTick ==
    /\ now < MaxCacheTime
    /\ now' = now + 1
    /\ UNCHANGED <<sendVars, storeVars, msg, llm, generated, response, raised,
                   handled, ticks, apiVars, concVars>>

\* an empty cache of each size
CacheInit ==
    /\ cache \in {NewCache(max_size, ttl_seconds) : max_size \in 1..MaxCacheSize,
                                                     ttl_seconds \in CacheTtls}
    /\ sessions = <<>>
    /\ sessions_dirty = FALSE
    /\ last_session_save = 0
    /\ disk = NoFile
    /\ now = 1
    /\ msg = NoMessage
    /\ llm = "<not called>"
    /\ generated = <<>>
    /\ response = None
    /\ raised = FALSE
    /\ handled = 0
    /\ ticks = 0
    /\ op = NoOp
    /\ run = NoRun
    /\ limiter = NoLimiter
    /\ gateway = NoGateway
    /\ retry = NoRetry
    /\ telegram = NoTelegram
    /\ heap = <<>>
    /\ refs = <<>>
    /\ thr = [t \in Threads |-> IdleThread]
    /\ base = <<>>
    /\ text = ""
    /\ spc = "idle"
    /\ sent = <<>>

CacheNext ==
    \/ CacheLlmResponse \/ GetCachedResponse
    \/ CacheStoryNode \/ GetStoryNode
    \/ CacheTick

SpecCache == CacheInit /\ [][CacheNext]_vars

\* C31: in distributed mode the bot server splits a response longer than the
\* effective payload length before it reaches the radio, so every text the
\* gateway hands to the radio through _send_response for a response of the bot
\* fits the per-message limit.  Stated with the raw limit MAX_MSG_LEN, which
\* the effective payload length never exceeds.
C31_GatewayFramesFit ==
    gateway.name = "gateway" /\ gateway.http = "bot"
    => \A i \in DOMAIN sent : Len(sent[i]) <= MAX_MSG_LEN

\* C38: RadioGateway.handle_message never raises to its caller and counts each
\* message once: a received message that passes the channel filter increments
\* exactly one of messages_forwarded and messages_failed, so that
\* messages_forwarded + messages_failed <= messages_received and
\* responses_sent <= messages_forwarded after every call.
C38_GatewayCountsOnce ==
    [][gateway'.messages_received = gateway.messages_received + 1
       => /\ ~gateway'.raised
          /\ gateway'.passed
             => (gateway'.messages_forwarded - gateway.messages_forwarded)
                + (gateway'.messages_failed - gateway.messages_failed) = 1
          /\ gateway'.messages_forwarded + gateway'.messages_failed
             <= gateway'.messages_received
          /\ gateway'.responses_sent <= gateway'.messages_forwarded]_vars

\* the story state the server keeps for a Telegram session key: the record
\* the key's messages are handled on
ServerStory(store, session_key) ==
    StoryFields(Get(store,
                    SessionKey(TelegramMessage("", SessionKeyToChannel(session_key))),
                    <<>>))

\* C32: two different Telegram session keys are tracked as independent
\* sessions on the bot server: starting, choosing or quitting under one key
\* never changes the story state the server keeps for another key that has an
\* adventure.
C32_TelegramKeysIndependent ==
    [][\A other \in TelegramKeys :
          /\ telegram'.session_key # other
          /\ other \in DOMAIN telegram.sessions
          => ServerStory(sessions', other) = ServerStory(sessions, other)]_vars

\* C33: when _expire_sessions removes at least one record, the removal is
\* saved at once: unless the write fails, the file holds the map without the
\* removed records and the dirty flag is false when _expire_sessions returns,
\* however short the time since the last write.
C33_ExpirySavedAtOnce ==
    [][IsCall("expire") /\ Expired(sessions, now) # {} /\ op'.w = "ok"
       => /\ disk' = [state |-> "valid", data |-> sessions']
          /\ ~sessions_dirty']_vars

\* no thread is inside a store method
Quiescent ==
    \A t \in Threads : thr[t].pc \in {"idle", "done"}

\* the session file holds the in-memory map (no file standing for no record)
FileHoldsMap ==
    \/ disk = [state |-> "valid", data |-> sessions]
    \/ disk = NoFile /\ sessions = <<>>

\* C34: from an empty or loaded store, whenever the dirty flag is false (and
\* no thread is in the middle of a store method) the content last written to
\* the session file equals the in-memory map, also when the periodic save
\* interleaves with command handling on another thread.  Stated for the
\* states whose last write attempt did not break off half-way.
C34_CleanMeansWritten ==
    Quiescent /\ ~sessions_dirty /\ disk.state # "corrupt" => FileHoldsMap

\* C35: batched persistence is live: while the periodic save keeps running
\* and file writes succeed, every session change is eventually written
\* without a forced save: once the changes have stopped, the file comes to
\* hold the in-memory map and keeps holding it.
C35_EventuallyWritten ==
    <>[]FileHoldsMap

\* a stored record names a theme of VALID_THEMES and a node of that theme's graph
InGraph(rec) ==
    /\ "theme" \in DOMAIN rec
    /\ rec.theme \in VALID_THEMES
    /\ "node" \in DOMAIN rec
    /\ rec.node \in DOMAIN FALLBACK_STORIES[rec.theme]

\* C36: in every state reached through handle_message from an empty store,
\* every stored session record has a theme of VALID_THEMES and a node that is
\* a node id of that theme's graph, whatever the mix of generated and
\* fallback steps.
C36_RecordsInGraph ==
    \A k \in DOMAIN sessions : InGraph(sessions[k])

\* a session of a theme other than the default that a fallback step has
\* moved off 'start' and a generated step has continued
C36_MixedStepsStored ==
    \E k \in DOMAIN sessions :
        /\ InGraph(sessions[k])
        /\ sessions[k].theme # "fantasy"
        /\ sessions[k].node # "start"
        /\ Get(sessions[k], "history", <<>>) # <<>>

\* the nodes the next entries of node n lead to
Successors(graph, n) ==
    {graph[n].next[token] : token \in DOMAIN graph[n].next} \cap DOMAIN graph

\* the nodes reachable from the nodes of from along next entries
RECURSIVE ReachableFrom(_, _)
ReachableFrom(graph, from) ==
    LET further == from \cup UNION {Successors(graph, n) : n \in from}
    IN IF further = from THEN from ELSE ReachableFrom(graph, further)

\* a node without choices can be reached from node n
ReachesTerminal(graph, n) ==
    \E m \in ReachableFrom(graph, {n}) : graph[m].choices = <<>>

\* C37: in each theme graph every node is reachable from 'start' and from
\* every node a terminal node is reachable; so wherever a fallback call
\* leaves a session, the node is one a player can get to from 'start' and
\* one from which the story can end.
C37_GraphConnected ==
    /\ \A th \in VALID_THEMES :
          /\ ReachableFrom(FALLBACK_STORIES[th], {"start"})
                = DOMAIN FALLBACK_STORIES[th]
          /\ \A n \in DOMAIN FALLBACK_STORIES[th] :
                ReachesTerminal(FALLBACK_STORIES[th], n)
    /\ op.name = "fallback" /\ op.theme \in VALID_THEMES =>
          /\ sessions[op.key].node
                \in ReachableFrom(FALLBACK_STORIES[op.theme], {"start"})
          /\ ReachesTerminal(FALLBACK_STORIES[op.theme], sessions[op.key].node)

\* the second of two fallback calls, one with a choice, has left a session of
\* the scifi graph at a node past 'start' that still has choices
C37_Witness ==
    /\ op.name = "fallback"
    /\ op.theme = "scifi"
    /\ op.choice \in {"1", "2", "3"}
    /\ handled = 2
    /\ sessions[op.key].node # "start"
    /\ FALLBACK_STORIES["scifi"][sessions[op.key].node].choices # <<>>

\* base to the power n
RECURSIVE Power(_, _)
Power(b, n) ==
    IF n = 0 THEN 1 ELSE b * Power(b, n - 1)

\* C39: retry_with_backoff(max_attempts = k >= 1) invokes the function at
\* most k times; it returns the first success and invokes nothing after it;
\* if all k attempts raise a listed exception the last one is re-raised; an
\* unlisted exception propagates at once; it sleeps exactly once between
\* consecutive attempts, for 1, f, f^2, ... seconds, and never after the
\* final attempt.
C39_RetryContract ==
    LET n == Len(retry.calls)
        listed(i) == /\ retry.calls[i].raised
                     /\ Listed(retry.calls[i].kind, retry.exceptions)
    IN /\ n <= retry.max_attempts
       /\ \A i \in 1..(n - 1) : listed(i)
       /\ retry.pc = "call" => n < retry.max_attempts /\ \A i \in 1..n : listed(i)
       /\ retry.pc = "returned" =>
             n >= 1 /\ ~retry.calls[n].raised /\ retry.value = n
       /\ retry.pc = "raised" =>
             /\ n >= 1
             /\ retry.calls[n].raised
             /\ retry.exc = [kind |-> retry.calls[n].kind, attempt |-> n]
             /\ listed(n) => n = retry.max_attempts
       /\ Len(retry.sleeps) = IF retry.pc = "call" THEN n ELSE n - 1
       /\ \A i \in 1..Len(retry.sleeps) :
             retry.sleeps[i] = Power(retry.backoff_factor, i - 1)

\* three attempts have raised listed exceptions of two kinds, the wrapper has
\* slept 1 and 2 seconds and raised the third
C39_Witness ==
    /\ retry.pc = "raised"
    /\ retry.max_attempts = 3
    /\ retry.backoff_factor = 2
    /\ Len(retry.calls) = 3
    /\ retry.calls[1].kind = "ValueError"
    /\ retry.calls[2].kind = "KeyError"
    /\ retry.calls[3].kind = "ValueError"
    /\ retry.exc = [kind |-> "ValueError", attempt |-> 3]
    /\ retry.sleeps = <<1, 2>>

\* the keys of the entries
CachedKeys(entries) ==
    {entries[i].key : i \in 1..Len(entries)}

\* the key of c least recently stored or successfully read
LeastRecentlyUsed(c) ==
    CHOOSE k \in CachedKeys(c.entries) :
        \A other \in CachedKeys(c.entries) : c.used[k] <= c.used[other]

\* C40: after any sequence of cache_* and get_* calls size() is at most
\* max_size; and when a new key is stored into a full cache of unexpired
\* entries, one entry is removed, the one least recently stored or
\* successfully read.
C40_CacheBoundedLru ==
    [][/\ CacheSize(cache') <= cache'.max_size
       /\ /\ cache'.last.op = "set"
          /\ cache'.uses = cache.uses + 1
          /\ ~Cached(cache.entries, cache'.last.key)
          /\ CacheSize(cache) = cache.max_size
          /\ \A i \in 1..Len(cache.entries) :
                ~Stale(cache.entries[i], now, cache.ttl_seconds)
          => /\ CachedKeys(cache'.entries)
                   = (CachedKeys(cache.entries) \ {LeastRecentlyUsed(cache)})
                     \cup {cache'.last.key}
             /\ Len(cache'.last.evicted) = 1
             /\ cache'.last.evicted[1].key = LeastRecentlyUsed(cache)
      ]_vars

\* a store into a full cache has removed an entry that was stored later than
\* one that stays, because the older one had been read since
C40_Witness ==
    /\ cache.last.op = "set"
    /\ cache.max_size = 2
    /\ Len(cache.last.evicted) = 1
    /\ \E i \in 1..Len(cache.entries) :
          /\ cache.entries[i].ts < cache.last.evicted[1].ts
          /\ cache.entries[i].key # cache.last.key

====
